---- MODULE Spec2Model ----
(***************************************************************************)
(* The in-memory filesystem of filesystems/memory.py: the node tree owned  *)
(* by _State, path resolution by _State.__getitem__, the operations of     *)
(* the six node variants, and the byte buffers behind the handles that     *)
(* open_file returns.                                                      *)
(***************************************************************************)
EXTENDS Naturals, Integers, Sequences, FiniteSets, TLC

(***************************************************************************)
(* Bounds of the model.                                                    *)
(***************************************************************************)
\* Nodes that can be stored besides the root directory.
MaxNodes == 2
\* Longest path (in segments) handed to an operation or stored in a link.
MaxDepth == 2
\* Longest contents of one file, in bytes.
MaxLen == 1

\* The names callers use, in a fixed order; the caller of Spec uses the
\* first two.
NameSeq == <<"a", "b", "c">>
Names == {NameSeq[i] : i \in {1, 2}}

\* Code points written through text handles: LF, CR and U+05E9 (two bytes
\* in UTF-8), and the bytes written through binary handles.
Chars == {10, 13, 1513}
Bytes == {10, 13, 215, 169}

(***************************************************************************)
(* Paths: an ordered sequence of segments, absolute or relative.           *)
(***************************************************************************)
RECURSIVE SeqsUpTo(_, _)
SeqsUpTo(S, n) ==
    IF n = 0 THEN {<<>>}
    ELSE SeqsUpTo(S, n - 1) \cup
         {Append(q, x) : q \in {r \in SeqsUpTo(S, n - 1) : Len(r) = n - 1}, x \in S}

Path(segs) == [rel |-> FALSE, segs |-> segs]
RelativePath(segs) == [rel |-> TRUE, segs |-> segs]
Root == Path(<<>>)

AbsPaths == {Path(q) : q \in SeqsUpTo(Names, MaxDepth)}
RelPaths == {RelativePath(q) : q \in SeqsUpTo(Names, 1) \ {<<>>}}

parent(path) ==
    IF path.segs = <<>> THEN path
    ELSE [path EXCEPT !.segs = SubSeq(path.segs, 1, Len(path.segs) - 1)]

descendant(path, name) == [path EXCEPT !.segs = Append(path.segs, name)]

(***************************************************************************)
(* Open modes.  A mode string is its sequence of letters.                  *)
(***************************************************************************)
ModeStrings ==
    { <<>>, <<"r">>, <<"w">>, <<"a">>, <<"r", "b">>, <<"w", "b">>, <<"a", "b">>,
      <<"r", "t">>, <<"w", "t">>, <<"a", "t">>,
      <<"r", "w">>, <<"w", "b", "t">>, <<"x">> }

FileMode(activity, text) == [activity |-> activity, text |-> text]

Count(letters, S) == Cardinality({i \in 1..Len(letters) : letters[i] \in S})

ValidMode(letters) ==
    /\ Count(letters, {"r", "w", "a"}) <= 1
    /\ Count(letters, {"b", "t"}) <= 1
    /\ Count(letters, {"r", "w", "a", "b", "t"}) = Len(letters)

parse_mode(letters) ==
    FileMode(IF Count(letters, {"w"}) = 1 THEN "w"
             ELSE IF Count(letters, {"a"}) = 1 THEN "a" ELSE "r",
             Count(letters, {"b"}) = 0)

(***************************************************************************)
(* The heap.  A state S of the engine is a record of                       *)
(*   nodes   : the _Directory, _File and _Link objects, by identity;       *)
(*   bufs    : the _BytesIOIsTerrible objects, by identity;                *)
(*   handles : the file objects the caller got from open_file and still    *)
(*             holds.                                                      *)
(* An object no reference leads to is dropped from its map.  Identities    *)
(* are immaterial, so they are chosen canonically: a node is a child of    *)
(* one directory under one name from its construction until it is dropped, *)
(* and is identified by the names that lead from the root to it; buffers   *)
(* are numbered in the order of the files and handles that refer to them.  *)
(***************************************************************************)
\* F of x, with x worked out once however often F refers to it.
Given(x, F(_)) == CHOOSE r \in {F(v) : v \in {x}} : TRUE

Put(f, k, v) == [x \in DOMAIN f \cup {k} |-> IF x = k THEN v ELSE f[x]]
Drop(f, k) == [x \in DOMAIN f \ {k} |-> f[x]]
NoChildren == [x \in {} |-> 0]

rootId == <<>>

Directory(name, parentId) ==
    [kind |-> "Directory", name |-> name, parent |-> parentId,
     children |-> NoChildren, contents |-> 0, source |-> Root]
File(name, parentId, buf) ==
    [kind |-> "File", name |-> name, parent |-> parentId,
     children |-> NoChildren, contents |-> buf, source |-> Root]
Link(name, parentId, source) ==
    [kind |-> "Link", name |-> name, parent |-> parentId,
     children |-> NoChildren, contents |-> 0, source |-> source]

\* _Directory.root: the root directory is its own parent.
DirectoryRoot == Directory("", rootId)

\* What resolution yields: a stored node, or one of the three phantoms.
Stored(id) == [v |-> "Stored", id |-> id, name |-> ""]
DirectoryChild(name, parentId) == [v |-> "DirectoryChild", id |-> parentId, name |-> name]
FileChild(parentId) == [v |-> "FileChild", id |-> parentId, name |-> ""]
NO_SUCH_ENTRY == [v |-> "NoSuchEntry", id |-> rootId, name |-> ""]
\* A lookup that calls itself again with the arguments it is already
\* running with never returns: the interpreter ends it with RecursionError.
Unbounded == [v |-> "RecursionError", id |-> rootId, name |-> ""]

KindOf(S, node) == IF node.v = "Stored" THEN S.nodes[node.id].kind ELSE node.v

Directory_getitem(S, id, name) ==
    IF name \in DOMAIN S.nodes[id].children
    THEN Stored(S.nodes[id].children[name])
    ELSE DirectoryChild(name, id)

\* As File_getitem, but what lies below a file is simply not there.
File_getitem_no_entry(S, id, name) == NO_SUCH_ENTRY

File_getitem(S, id, name) == FileChild(S.nodes[id].parent)

RECURSIVE getitem(_, _, _, _), State_getitem_from(_, _, _, _), entry_at_source(_, _, _)

\* As getitem, but a link has no entries of its own and leads to none.
getitem_stops_at_link(S, node, name, stack) ==
    CASE KindOf(S, node) = "Directory" -> Directory_getitem(S, node.id, name)
      [] KindOf(S, node) = "File" -> File_getitem(S, node.id, name)
      [] KindOf(S, node) = "Link" -> NO_SUCH_ENTRY
      [] OTHER -> IF KindOf(S, node) = "DirectoryChild" THEN NO_SUCH_ENTRY ELSE node

\* node[name] for each variant; stack holds the calls in progress.
getitem(S, node, name, stack) ==
    CASE KindOf(S, node) = "Directory" -> Directory_getitem(S, node.id, name)
      [] KindOf(S, node) = "File" -> File_getitem(S, node.id, name)
      [] KindOf(S, node) = "Link" ->
            IF <<"getitem", node.id, name>> \in stack THEN Unbounded
            ELSE LET st == stack \cup {<<"getitem", node.id, name>>}
                 IN  Given(entry_at_source(S, node.id, st),
                           LAMBDA entry : getitem(S, entry, name, st))
      [] KindOf(S, node) = "DirectoryChild" -> NO_SUCH_ENTRY
      [] KindOf(S, node) = "FileChild" -> node
      [] KindOf(S, node) = "NoSuchEntry" -> node
      [] KindOf(S, node) = "RecursionError" -> node

State_getitem_from(S, node, segs, stack) ==
    IF segs = <<>> THEN node
    ELSE Given(getitem(S, node, Head(segs), stack),
               LAMBDA child : State_getitem_from(S, child, Tail(segs), stack))

\* lambda: state[source]
entry_at_source(S, id, stack) ==
    IF <<"entry", id, "">> \in stack THEN Unbounded
    ELSE State_getitem_from(S, Stored(rootId), S.nodes[id].source.segs,
                            stack \cup {<<"entry", id, "">>})

\* _State.__getitem__
State_getitem(S, path) == State_getitem_from(S, Stored(rootId), path.segs, {})

(***************************************************************************)
(* Buffers and handles.                                                    *)
(***************************************************************************)
FreshId(f) ==
    CHOOSE n \in 1..(Cardinality(DOMAIN f) + 1) :
        n \notin DOMAIN f /\ \A m \in 1..(n - 1) : m \in DOMAIN f

\* _BytesIOIsTerrible(initial): an open buffer positioned at its start.
BytesIO(initial) ==
    [value |-> initial, pos |-> 0, closed |-> FALSE, hereismyvalue |-> <<>>]

\* _BytesIOIsTerrible.bytes
BufBytes(buf) == IF buf.closed THEN buf.hereismyvalue ELSE buf.value

\* BytesIO.write at the current position (handles never seek).
BufWrite(buf, data) ==
    LET n == Len(data)
        before == SubSeq(buf.value, 1, buf.pos)
        after == SubSeq(buf.value, buf.pos + n + 1, Len(buf.value))
    IN  [buf EXCEPT !.value = before \o data \o after, !.pos = buf.pos + n]

\* As BufClose, but as io.BytesIO closes: the value is not kept.
BufClose_loses_value(buf) ==
    IF buf.closed THEN buf ELSE [buf EXCEPT !.closed = TRUE]

\* _BytesIOIsTerrible.close
BufClose(buf) ==
    IF buf.closed THEN buf
    ELSE [buf EXCEPT !.hereismyvalue = buf.value, !.closed = TRUE]

\* A file object as returned by open_file: the buffer itself (text = FALSE)
\* or a TextIOWrapper around it, which holds encoded text back until it is
\* flushed.
Handle(buf, mode) ==
    [buf |-> buf, text |-> mode.text, activity |-> mode.activity, pending |-> <<>>]

\* The place of a node among the nodes, by the names that lead to it.
NameRank(name) == CHOOSE i \in DOMAIN NameSeq : NameSeq[i] = name
RECURSIVE Rank(_)
Rank(id) ==
    IF id = <<>> THEN 0
    ELSE Rank(SubSeq(id, 1, Len(id) - 1)) * (Len(NameSeq) + 1) + NameRank(id[Len(id)])

\* Buffers are dropped when the last reference to them goes; those left are
\* numbered anew, the files' first and then those only a handle refers to.
Collect(S) ==
    LET files == {i \in DOMAIN S.nodes : S.nodes[i].kind = "File"}
        owned == {S.nodes[i].contents : i \in files}
        privs == {h \in DOMAIN S.handles :
                    /\ S.handles[h].buf \notin owned
                    /\ \A g \in DOMAIN S.handles :
                          S.handles[g].buf = S.handles[h].buf => h <= g}
        ofFile(i) == 1 + Cardinality({j \in files : Rank(j) < Rank(i)})
        ofPriv(h) == Cardinality(files) + 1 + Cardinality({g \in privs : g < h})
        new(b) == IF b \in owned
                  THEN ofFile(CHOOSE i \in files : S.nodes[i].contents = b)
                  ELSE ofPriv(CHOOSE h \in privs : S.handles[h].buf = b)
        old(n) == CHOOSE b \in owned \cup {S.handles[h].buf : h \in privs} : new(b) = n
    IN  [nodes |-> [i \in DOMAIN S.nodes |->
                      IF i \in files
                      THEN [S.nodes[i] EXCEPT !.contents = new(S.nodes[i].contents)]
                      ELSE S.nodes[i]],
         bufs |-> [n \in 1..(Cardinality(files) + Cardinality(privs)) |-> S.bufs[old(n)]],
         handles |-> [h \in DOMAIN S.handles |->
                      [S.handles[h] EXCEPT !.buf = new(S.handles[h].buf)]]]

(***************************************************************************)
(* What an operation gives back: the state it leaves, the error it raised  *)
(* (or "ok") and the path the error names, and its return value.           *)
(***************************************************************************)
Ok(S) ==
    [err |-> "ok", errpath |-> Root, S |-> S, flag |-> FALSE, names |-> {},
     target |-> Root, data |-> <<>>, handle |-> 0]
Raise(e, path, S) == [Ok(S) EXCEPT !.err = e, !.errpath = path]
Bool(S, b) == [Ok(S) EXCEPT !.flag = b]

Taxonomy ==
    {"FileNotFound", "FileExists", "NotADirectory", "IsADirectory",
     "DirectoryNotEmpty", "PermissionError", "NotASymlink", "SymbolicLoop",
     "InvalidMode"}

(***************************************************************************)
(* _Directory: the child mapping.                                          *)
(***************************************************************************)
\* As Directory_setitem, but the directory object keeps the mapping it had:
\* the mapping with the new node is a version no reference leads to.
Directory_setitem_new_version(S, id, name, node) ==
    [S EXCEPT !.nodes = Put(S.nodes, Append(id, name), node)]

\* _Directory.__setitem__ with a newly constructed node.
Directory_setitem(S, id, name, node) ==
    LET new == Append(id, name)
    IN  [S EXCEPT !.nodes =
            Put([S.nodes EXCEPT ![id].children = Put(S.nodes[id].children, name, new)],
                new, node)]

\* As Directory_delitem, but every entry of the directory that has nothing
\* below it goes with the one named.
Directory_delitem_sweeps(S, id, name) ==
    IF name \notin DOMAIN S.nodes[id].children
    THEN Raise("KeyError", Root, S)
    ELSE LET swept == {n \in DOMAIN S.nodes[id].children :
                         \/ n = name
                         \/ S.nodes[S.nodes[id].children[n]].children = NoChildren}
             gone == {S.nodes[id].children[n] : n \in swept}
             kept == [S.nodes EXCEPT ![id].children =
                         [n \in DOMAIN S.nodes[id].children \ swept |->
                             S.nodes[id].children[n]]]
         IN  Given([S EXCEPT !.nodes = [i \in DOMAIN kept \ gone |-> kept[i]]],
                   LAMBDA left : Ok(Collect(left)))

\* _Directory.__delitem__: pmap.remove raises KeyError on a missing key.
Directory_delitem(S, id, name) ==
    IF name \notin DOMAIN S.nodes[id].children
    THEN Raise("KeyError", Root, S)
    ELSE LET gone == S.nodes[id].children[name]
             kept == [S.nodes EXCEPT ![id].children = Drop(S.nodes[id].children, name)]
         IN  Given([S EXCEPT !.nodes = Drop(kept, gone)], LAMBDA left : Ok(Collect(left)))

(***************************************************************************)
(* _File                                                                   *)
(***************************************************************************)
\* As File_open_file, but an appending open starts from an empty buffer.
File_open_file_append_empty(S, id, path, mode) ==
    LET old == S.bufs[S.nodes[id].contents]
        b == FreshId(S.bufs)
        h == FreshId(S.handles)
        buf == CASE mode.activity = "r" -> BytesIO(BufBytes(old))
                 [] mode.activity = "w" -> BytesIO(<<>>)
                 [] mode.activity = "a" -> BytesIO(<<>>)
        nodes == IF mode.activity = "r" THEN S.nodes
                 ELSE [S.nodes EXCEPT ![id].contents = b]
    IN  Given([nodes |-> nodes,
               bufs |-> Put(S.bufs, b, buf),
               handles |-> Put(S.handles, h, Handle(b, mode))],
              LAMBDA opened : [Ok(Collect(opened)) EXCEPT !.handle = h])

\* As File_open_file, but a file opened for writing or appending keeps its
\* buffer, emptied where the mode is to write: every writer has the same one.
File_open_file_one_buffer(S, id, path, mode) ==
    LET b == S.nodes[id].contents
        old == S.bufs[b]
        c == FreshId(S.bufs)
        h == FreshId(S.handles)
        kept == IF mode.activity = "w" THEN BytesIO(<<>>)
                ELSE BufWrite(BytesIO(<<>>), BufBytes(old))
    IN  IF mode.activity = "r"
        THEN Given([nodes |-> S.nodes,
                    bufs |-> Put(S.bufs, c, BytesIO(BufBytes(old))),
                    handles |-> Put(S.handles, h, Handle(c, mode))],
                   LAMBDA opened : [Ok(Collect(opened)) EXCEPT !.handle = h])
        ELSE [Ok([S EXCEPT !.bufs[b] = kept,
                           !.handles = Put(S.handles, h, Handle(b, mode))])
                EXCEPT !.handle = h]

\* As File_open_file, but a handle opened for reading is a view of the
\* file's own buffer and not of a copy.
File_open_file_live(S, id, path, mode) ==
    LET old == S.bufs[S.nodes[id].contents]
        b == FreshId(S.bufs)
        h == FreshId(S.handles)
        buf == IF mode.activity = "w" THEN BytesIO(<<>>)
               ELSE BufWrite(BytesIO(<<>>), BufBytes(old))
    IN  IF mode.activity = "r"
        THEN [Ok([S EXCEPT !.handles = Put(S.handles, h,
                                           Handle(S.nodes[id].contents, mode))])
                EXCEPT !.handle = h]
        ELSE Given([nodes |-> [S.nodes EXCEPT ![id].contents = b],
                    bufs |-> Put(S.bufs, b, buf),
                    handles |-> Put(S.handles, h, Handle(b, mode))],
                   LAMBDA opened : [Ok(Collect(opened)) EXCEPT !.handle = h])

File_open_file(S, id, path, mode) ==
    LET old == S.bufs[S.nodes[id].contents]
        b == FreshId(S.bufs)
        h == FreshId(S.handles)
        buf == CASE mode.activity = "r" -> BytesIO(BufBytes(old))
                 [] mode.activity = "w" -> BytesIO(<<>>)
                 [] mode.activity = "a" -> BufWrite(BytesIO(<<>>), BufBytes(old))
        nodes == IF mode.activity = "r" THEN S.nodes
                 ELSE [S.nodes EXCEPT ![id].contents = b]
    IN  Given([nodes |-> nodes,
               bufs |-> Put(S.bufs, b, buf),
               handles |-> Put(S.handles, h, Handle(b, mode))],
              LAMBDA opened : [Ok(Collect(opened)) EXCEPT !.handle = h])

\* As File_remove_file, but the parent keeps the file under its name.
File_remove_file_keeps(S, id, path) == Ok(S)

File_remove_file(S, id, path) ==
    Directory_delitem(S, S.nodes[id].parent, S.nodes[id].name)

(***************************************************************************)
(* _Directory                                                              *)
(***************************************************************************)
\* As Directory_list_directory, but with the names in the directories below.
Directory_list_directory_deep(S, id, path) ==
    [Ok(S) EXCEPT !.names =
        DOMAIN S.nodes[id].children
            \cup UNION {DOMAIN S.nodes[S.nodes[id].children[n]].children
                          : n \in DOMAIN S.nodes[id].children}]

Directory_list_directory(S, id, path) ==
    [Ok(S) EXCEPT !.names = DOMAIN S.nodes[id].children]

\* As Directory_remove_empty_directory, but the directory object itself is
\* discarded, whether or not its parent has it under its name.
Directory_remove_empty_directory_discards(S, id, path) ==
    IF DOMAIN S.nodes[id].children # {}
    THEN Raise("DirectoryNotEmpty", path, S)
    ELSE Ok([S EXCEPT !.nodes =
                Drop([i \in DOMAIN S.nodes |->
                        [S.nodes[i] EXCEPT !.children =
                            [n \in {m \in DOMAIN S.nodes[i].children :
                                      S.nodes[i].children[m] # id}
                               |-> S.nodes[i].children[n]]]],
                     id)])

Directory_remove_empty_directory(S, id, path) ==
    IF DOMAIN S.nodes[id].children # {}
    THEN Raise("DirectoryNotEmpty", path, S)
    ELSE Directory_delitem(S, S.nodes[id].parent, S.nodes[id].name)

(***************************************************************************)
(* _DirectoryChild: absent, inside the existing directory node.id          *)
(***************************************************************************)
\* As DirectoryChild_create_directory, but the new directory takes the root
\* for its parent.
DirectoryChild_create_directory_under_root(S, node, path) ==
    Ok(Directory_setitem(S, node.id, node.name, Directory(node.name, rootId)))

DirectoryChild_create_directory(S, node, path) ==
    Ok(Directory_setitem(S, node.id, node.name, Directory(node.name, node.id)))

\* The new _File gets a buffer of its own from the attrs factory.
NewFile(S, node) ==
    LET b == FreshId(S.bufs)
    IN  Directory_setitem([S EXCEPT !.bufs = Put(S.bufs, b, BytesIO(<<>>))],
                          node.id, node.name, File(node.name, node.id, b))

DirectoryChild_create_file(S, node, path) ==
    Given(NewFile(S, node),
          LAMBDA made : File_open_file(made, Append(node.id, node.name), path,
                                       FileMode("w", TRUE)))

\* As DirectoryChild_open_file, but the new file is made before the mode is
\* looked at.
DirectoryChild_open_file_creates_first(S, node, path, mode) ==
    IF mode.activity = "r" THEN Raise("FileNotFound", path, NewFile(S, node))
    ELSE Given(NewFile(S, node),
               LAMBDA made : File_open_file(made, Append(node.id, node.name), path, mode))

DirectoryChild_open_file(S, node, path, mode) ==
    IF mode.activity = "r" THEN Raise("FileNotFound", path, S)
    ELSE Given(NewFile(S, node),
               LAMBDA made : File_open_file(made, Append(node.id, node.name), path, mode))

\* As DirectoryChild_link, but a link to a directory is made as a directory
\* of its own in place of the link.
DirectoryChild_link_stores_node(S, node, source, to) ==
    IF KindOf(S, State_getitem(S, source)) = "Directory"
    THEN Ok(Directory_setitem(S, node.id, node.name, Directory(node.name, node.id)))
    ELSE Ok(Directory_setitem(S, node.id, node.name, Link(node.name, node.id, source)))

\* As DirectoryChild_link, but with the two paths the wrong way round.
DirectoryChild_link_swapped(S, node, source, to) ==
    Ok(Directory_setitem(S, node.id, node.name, Link(node.name, node.id, to)))

DirectoryChild_link(S, node, source, to) ==
    Ok(Directory_setitem(S, node.id, node.name, Link(node.name, node.id, source)))

(***************************************************************************)
(* _Link                                                                   *)
(***************************************************************************)
\* As Link_remove_file, but it is the entry at the source that goes.
Link_remove_file_follows(S, id, path) ==
    LET e == entry_at_source(S, id, {})
    IN  IF e.v = "Stored" /\ e.id # rootId
        THEN Directory_delitem(S, S.nodes[e.id].parent, S.nodes[e.id].name)
        ELSE Raise("FileNotFound", path, S)

Link_remove_file(S, id, path) ==
    Directory_delitem(S, S.nodes[id].parent, S.nodes[id].name)

\* As Link_readlink, but answering with the path that was asked.
Link_readlink_own_path(S, id, path) == [Ok(S) EXCEPT !.target = path]

Link_readlink(S, id, path) == [Ok(S) EXCEPT !.target = S.nodes[id].source]

(***************************************************************************)
(* The operations, by variant of the node the path resolved to.  A _Link   *)
(* hands list_directory, open_file, exists, is_dir and is_file on to the   *)
(* entry at its source.                                                    *)
(***************************************************************************)
\* As Delegate, but a link whose source is a link again leads nowhere.
Delegate_one_hop(S, op, id, stack) ==
    IF <<op, id, "">> \in stack THEN Unbounded
    ELSE LET e == entry_at_source(S, id, stack \cup {<<op, id, "">>})
         IN  IF KindOf(S, e) = "Link" THEN NO_SUCH_ENTRY ELSE e

Delegate(S, op, id, stack) ==
    IF <<op, id, "">> \in stack THEN Unbounded
    ELSE entry_at_source(S, id, stack \cup {<<op, id, "">>})

\* As node_create_directory, but where no entry can be made the error names
\* the path of the directory itself.
node_create_directory_names_path(S, node, path) ==
    CASE KindOf(S, node) \in {"Directory", "File", "Link"} -> Raise("FileExists", path, S)
      [] KindOf(S, node) = "DirectoryChild" -> DirectoryChild_create_directory(S, node, path)
      [] KindOf(S, node) = "FileChild" -> Raise("NotADirectory", path, S)
      [] KindOf(S, node) = "NoSuchEntry" -> Raise("FileNotFound", path, S)
      [] KindOf(S, node) = "RecursionError" -> Raise("RecursionError", path, S)

node_create_directory(S, node, path) ==
    CASE KindOf(S, node) \in {"Directory", "File", "Link"} -> Raise("FileExists", path, S)
      [] KindOf(S, node) = "DirectoryChild" -> DirectoryChild_create_directory(S, node, path)
      [] KindOf(S, node) = "FileChild" -> Raise("NotADirectory", parent(path), S)
      [] KindOf(S, node) = "NoSuchEntry" -> Raise("FileNotFound", parent(path), S)
      [] KindOf(S, node) = "RecursionError" -> Raise("RecursionError", path, S)

RECURSIVE node_list_directory(_, _, _, _)
node_list_directory(S, node, path, stack) ==
    CASE KindOf(S, node) = "Directory" -> Directory_list_directory(S, node.id, path)
      [] KindOf(S, node) = "File" -> Raise("NotADirectory", path, S)
      [] KindOf(S, node) = "Link" ->
            Given(Delegate(S, "list_directory", node.id, stack),
                  LAMBDA entry : node_list_directory(S, entry, path,
                                     stack \cup {<<"list_directory", node.id, "">>}))
      [] KindOf(S, node) = "DirectoryChild" -> Raise("FileNotFound", path, S)
      [] KindOf(S, node) = "FileChild" -> Raise("NotADirectory", path, S)
      [] KindOf(S, node) = "NoSuchEntry" -> Raise("FileNotFound", path, S)
      [] KindOf(S, node) = "RecursionError" -> Raise("RecursionError", path, S)

\* As node_remove_empty_directory, but an empty directory is left where it
\* is.
node_remove_empty_directory_leaves(S, node, path) ==
    CASE KindOf(S, node) = "Directory" ->
            IF DOMAIN S.nodes[node.id].children # {}
            THEN Raise("DirectoryNotEmpty", path, S) ELSE Ok(S)
      [] KindOf(S, node) \in {"File", "Link", "FileChild"} -> Raise("NotADirectory", path, S)
      [] KindOf(S, node) \in {"DirectoryChild", "NoSuchEntry"} -> Raise("FileNotFound", path, S)
      [] KindOf(S, node) = "RecursionError" -> Raise("RecursionError", path, S)

node_remove_empty_directory(S, node, path) ==
    CASE KindOf(S, node) = "Directory" -> Directory_remove_empty_directory(S, node.id, path)
      [] KindOf(S, node) = "File" -> Raise("NotADirectory", path, S)
      [] KindOf(S, node) = "Link" -> Raise("NotADirectory", path, S)
      [] KindOf(S, node) = "DirectoryChild" -> Raise("FileNotFound", path, S)
      [] KindOf(S, node) = "FileChild" -> Raise("NotADirectory", path, S)
      [] KindOf(S, node) = "NoSuchEntry" -> Raise("FileNotFound", path, S)
      [] KindOf(S, node) = "RecursionError" -> Raise("RecursionError", path, S)

\* As node_create_file, but where no entry can be made the error names the
\* parent of the path, as create_directory and link do.
node_create_file_names_parent(S, node, path) ==
    CASE KindOf(S, node) \in {"Directory", "File", "Link"} -> Raise("FileExists", path, S)
      [] KindOf(S, node) = "DirectoryChild" -> DirectoryChild_create_file(S, node, path)
      [] KindOf(S, node) = "FileChild" -> Raise("NotADirectory", parent(path), S)
      [] KindOf(S, node) = "NoSuchEntry" -> Raise("FileNotFound", parent(path), S)
      [] KindOf(S, node) = "RecursionError" -> Raise("RecursionError", path, S)

node_create_file(S, node, path) ==
    CASE KindOf(S, node) \in {"Directory", "File", "Link"} -> Raise("FileExists", path, S)
      [] KindOf(S, node) = "DirectoryChild" -> DirectoryChild_create_file(S, node, path)
      [] KindOf(S, node) = "FileChild" -> Raise("NotADirectory", path, S)
      [] KindOf(S, node) = "NoSuchEntry" -> Raise("FileNotFound", path, S)
      [] KindOf(S, node) = "RecursionError" -> Raise("RecursionError", path, S)

RECURSIVE node_open_file(_, _, _, _, _)
node_open_file(S, node, path, mode, stack) ==
    CASE KindOf(S, node) = "Directory" -> Raise("IsADirectory", path, S)
      [] KindOf(S, node) = "File" -> File_open_file(S, node.id, path, mode)
      [] KindOf(S, node) = "Link" ->
            Given(Delegate(S, "open_file", node.id, stack),
                  LAMBDA entry : node_open_file(S, entry, path, mode,
                                     stack \cup {<<"open_file", node.id, "">>}))
      [] KindOf(S, node) = "DirectoryChild" -> DirectoryChild_open_file(S, node, path, mode)
      [] KindOf(S, node) = "FileChild" -> Raise("NotADirectory", path, S)
      [] KindOf(S, node) = "NoSuchEntry" -> Raise("FileNotFound", path, S)
      [] KindOf(S, node) = "RecursionError" -> Raise("RecursionError", path, S)

\* As node_remove_file, but below a file there is nothing to be found.
node_remove_file_not_found(S, node, path) ==
    CASE KindOf(S, node) = "Directory" -> Raise("PermissionError", path, S)
      [] KindOf(S, node) = "File" -> File_remove_file(S, node.id, path)
      [] KindOf(S, node) = "Link" -> Link_remove_file(S, node.id, path)
      [] KindOf(S, node) = "DirectoryChild" -> Raise("FileNotFound", path, S)
      [] KindOf(S, node) = "FileChild" -> Raise("FileNotFound", path, S)
      [] KindOf(S, node) = "NoSuchEntry" -> Raise("FileNotFound", path, S)
      [] KindOf(S, node) = "RecursionError" -> Raise("RecursionError", path, S)

node_remove_file(S, node, path) ==
    CASE KindOf(S, node) = "Directory" -> Raise("PermissionError", path, S)
      [] KindOf(S, node) = "File" -> File_remove_file(S, node.id, path)
      [] KindOf(S, node) = "Link" -> Link_remove_file(S, node.id, path)
      [] KindOf(S, node) = "DirectoryChild" -> Raise("FileNotFound", path, S)
      [] KindOf(S, node) = "FileChild" -> Raise("NotADirectory", path, S)
      [] KindOf(S, node) = "NoSuchEntry" -> Raise("FileNotFound", path, S)
      [] KindOf(S, node) = "RecursionError" -> Raise("RecursionError", path, S)

\* As node_link, but where no entry can be made the error names the path of
\* the link itself.
node_link_names_path(S, node, source, to) ==
    CASE KindOf(S, node) \in {"Directory", "File", "Link"} -> Raise("FileExists", to, S)
      [] KindOf(S, node) = "DirectoryChild" -> DirectoryChild_link(S, node, source, to)
      [] KindOf(S, node) = "FileChild" -> Raise("NotADirectory", to, S)
      [] KindOf(S, node) = "NoSuchEntry" -> Raise("FileNotFound", to, S)
      [] KindOf(S, node) = "RecursionError" -> Raise("RecursionError", to, S)

node_link(S, node, source, to) ==
    CASE KindOf(S, node) \in {"Directory", "File", "Link"} -> Raise("FileExists", to, S)
      [] KindOf(S, node) = "DirectoryChild" -> DirectoryChild_link(S, node, source, to)
      [] KindOf(S, node) = "FileChild" -> Raise("NotADirectory", parent(to), S)
      [] KindOf(S, node) = "NoSuchEntry" -> Raise("FileNotFound", parent(to), S)
      [] KindOf(S, node) = "RecursionError" -> Raise("RecursionError", to, S)

\* As node_readlink, but a file or directory answers with its own path.
node_readlink_of_any_entry(S, node, path) ==
    CASE KindOf(S, node) \in {"Directory", "File"} -> [Ok(S) EXCEPT !.target = path]
      [] KindOf(S, node) = "Link" -> Link_readlink(S, node.id, path)
      [] KindOf(S, node) = "DirectoryChild" -> Raise("FileNotFound", path, S)
      [] KindOf(S, node) = "FileChild" -> Raise("NotADirectory", path, S)
      [] KindOf(S, node) = "NoSuchEntry" -> Raise("FileNotFound", path, S)
      [] KindOf(S, node) = "RecursionError" -> Raise("RecursionError", path, S)

node_readlink(S, node, path) ==
    CASE KindOf(S, node) \in {"Directory", "File"} -> Raise("NotASymlink", path, S)
      [] KindOf(S, node) = "Link" -> Link_readlink(S, node.id, path)
      [] KindOf(S, node) = "DirectoryChild" -> Raise("FileNotFound", path, S)
      [] KindOf(S, node) = "FileChild" -> Raise("NotADirectory", path, S)
      [] KindOf(S, node) = "NoSuchEntry" -> Raise("FileNotFound", path, S)
      [] KindOf(S, node) = "RecursionError" -> Raise("RecursionError", path, S)

\* exists, is_dir and is_file: what holds of the kinds in `yes`.
RECURSIVE node_stat(_, _, _, _, _)
node_stat(S, node, op, yes, stack) ==
    CASE KindOf(S, node) \in {"Directory", "File"} -> Bool(S, KindOf(S, node) \in yes)
      [] KindOf(S, node) = "Link" ->
            Given(Delegate(S, op, node.id, stack),
                  LAMBDA entry : node_stat(S, entry, op, yes,
                                           stack \cup {<<op, node.id, "">>}))
      [] KindOf(S, node) \in {"DirectoryChild", "FileChild", "NoSuchEntry"} -> Bool(S, FALSE)
      [] KindOf(S, node) = "RecursionError" -> Raise("RecursionError", Root, S)

\* As node_is_link, but asking about a path where nothing is raises.
node_is_link_of_entries(S, node) ==
    CASE KindOf(S, node) = "RecursionError" -> Raise("RecursionError", Root, S)
      [] KindOf(S, node) \in {"DirectoryChild", "NoSuchEntry"} -> Raise("FileNotFound", Root, S)
      [] KindOf(S, node) = "FileChild" -> Raise("NotADirectory", Root, S)
      [] OTHER -> Bool(S, KindOf(S, node) = "Link")

node_is_link(S, node) ==
    CASE KindOf(S, node) = "RecursionError" -> Raise("RecursionError", Root, S)
      [] OTHER -> Bool(S, KindOf(S, node) = "Link")

(***************************************************************************)
(* _State: resolve the path, then ask the node.                            *)
(***************************************************************************)
State_create_directory(S, path) ==
    Given(State_getitem(S, path), LAMBDA node : node_create_directory(S, node, path))
State_list_directory(S, path) ==
    Given(State_getitem(S, path), LAMBDA node : node_list_directory(S, node, path, {}))
State_remove_empty_directory(S, path) ==
    Given(State_getitem(S, path), LAMBDA node : node_remove_empty_directory(S, node, path))
\* As State_create_file, but a link at the path is followed to its source.
State_create_file_through_link(S, path) ==
    Given(State_getitem(S, path),
          LAMBDA node : IF KindOf(S, node) = "Link"
                        THEN node_create_file(S, entry_at_source(S, node.id, {}), path)
                        ELSE node_create_file(S, node, path))

State_create_file(S, path) ==
    Given(State_getitem(S, path), LAMBDA node : node_create_file(S, node, path))
\* As State_open_file, but the mode is only looked into once the node has
\* opened the file.
State_open_file_validates_late(S, path, letters) ==
    Given(State_getitem(S, path),
          LAMBDA node :
              Given(node_open_file(S, node, path, parse_mode(letters), {}),
                    LAMBDA r : IF ~ValidMode(letters) THEN Raise("InvalidMode", path, r.S)
                               ELSE r))

\* As State_open_file, but a directory is no more to be opened than a path
\* where nothing is.
State_open_file_directory_not_found(S, path, letters) ==
    IF ~ValidMode(letters) THEN Raise("InvalidMode", path, S)
    ELSE Given(State_getitem(S, path),
               LAMBDA node : IF KindOf(S, node) = "Directory"
                             THEN Raise("FileNotFound", path, S)
                             ELSE node_open_file(S, node, path, parse_mode(letters), {}))

State_open_file(S, path, letters) ==
    IF ~ValidMode(letters) THEN Raise("InvalidMode", path, S)
    ELSE Given(State_getitem(S, path),
               LAMBDA node : node_open_file(S, node, path, parse_mode(letters), {}))
State_remove_file(S, path) ==
    Given(State_getitem(S, path), LAMBDA node : node_remove_file(S, node, path))
\* As State_link, but a link to its own path is refused.
State_link_refuses_own_path(S, source, to) ==
    IF source = to THEN Raise("SymbolicLoop", to, S)
    ELSE Given(State_getitem(S, to), LAMBDA node : node_link(S, node, source, to))

State_link(S, source, to) ==
    Given(State_getitem(S, to), LAMBDA node : node_link(S, node, source, to))
State_readlink(S, path) ==
    Given(State_getitem(S, path), LAMBDA node : node_readlink(S, node, path))
\* As State_exists, but a link is there whether or not its source is.
State_exists_of_entry(S, path) ==
    Given(State_getitem(S, path),
          LAMBDA node : IF KindOf(S, node) = "Link" THEN Bool(S, TRUE)
                        ELSE node_stat(S, node, "exists", {"Directory", "File"}, {}))

State_exists(S, path) ==
    Given(State_getitem(S, path),
          LAMBDA node : node_stat(S, node, "exists", {"Directory", "File"}, {}))
\* As State_is_dir, but a link is not followed.
State_is_dir_of_entry(S, path) ==
    Given(State_getitem(S, path),
          LAMBDA node : IF KindOf(S, node) = "Link" THEN Bool(S, FALSE)
                        ELSE node_stat(S, node, "is_dir", {"Directory"}, {}))

State_is_dir(S, path) ==
    Given(State_getitem(S, path), LAMBDA node : node_stat(S, node, "is_dir", {"Directory"}, {}))
State_is_file(S, path) ==
    Given(State_getitem(S, path), LAMBDA node : node_stat(S, node, "is_file", {"File"}, {}))
State_is_link(S, path) == Given(State_getitem(S, path), LAMBDA node : node_is_link(S, node))

\* As State_temporary_directory, but the path is returned without the
\* directory being made.
State_temporary_directory_unmade(S, hex) == [Ok(S) EXCEPT !.target = Path(<<hex>>)]

\* temporary_directory, with `hex` the name uuid4 produced.
State_temporary_directory(S, hex) ==
    LET r == State_create_directory(S, Path(<<hex>>))
    IN  IF r.err = "ok" THEN [r EXCEPT !.target = Path(<<hex>>)] ELSE r

(***************************************************************************)
(* Text handles: TextIOWrapper(file) with its defaults, UTF-8 and          *)
(* universal newlines, on a platform whose line separator is LF.           *)
(***************************************************************************)
RECURSIVE Utf8Encode(_)
Utf8Encode(text) ==
    IF text = <<>> THEN <<>>
    ELSE LET c == Head(text)
         IN  (IF c < 128 THEN <<c>> ELSE <<192 + (c \div 64), 128 + (c % 64)>>)
             \o Utf8Encode(Tail(text))

\* [ok, text]: ok is FALSE where the bytes are no UTF-8 (UnicodeDecodeError).
RECURSIVE Utf8Decode(_)
Utf8Decode(bytes) ==
    IF bytes = <<>> THEN [ok |-> TRUE, text |-> <<>>]
    ELSE IF bytes[1] < 128
    THEN LET rest == Utf8Decode(Tail(bytes))
         IN  [ok |-> rest.ok, text |-> <<bytes[1]>> \o rest.text]
    ELSE IF bytes[1] \in 194..223 /\ Len(bytes) >= 2 /\ bytes[2] \in 128..191
    THEN LET rest == Utf8Decode(Tail(Tail(bytes)))
         IN  [ok |-> rest.ok,
              text |-> <<(bytes[1] - 192) * 64 + (bytes[2] - 128)>> \o rest.text]
    ELSE [ok |-> FALSE, text |-> <<>>]

\* Reading with newline=None: CR LF and CR both come out as LF.
RECURSIVE UniversalNewlines(_)
UniversalNewlines(text) ==
    IF text = <<>> THEN <<>>
    ELSE IF Head(text) = 13 /\ Len(text) >= 2 /\ text[2] = 10
    THEN <<10>> \o UniversalNewlines(Tail(Tail(text)))
    ELSE IF Head(text) = 13 THEN <<10>> \o UniversalNewlines(Tail(text))
    ELSE <<Head(text)>> \o UniversalNewlines(Tail(text))

(***************************************************************************)
(* What the caller does with a handle.                                     *)
(***************************************************************************)
\* As Handle_write, but every handle holds what is written back until it is
\* closed.
Handle_write_held(S, h, data) ==
    Ok([S EXCEPT !.handles[h].pending =
                     S.handles[h].pending
                     \o (IF S.handles[h].text THEN Utf8Encode(data) ELSE data)])

\* f.write(data): straight into the buffer, or into the wrapper's pending
\* bytes.
Handle_write(S, h, data) ==
    LET hd == S.handles[h]
    IN  IF hd.text
        THEN Ok([S EXCEPT !.handles[h].pending = hd.pending \o Utf8Encode(data)])
        ELSE Ok([S EXCEPT !.bufs[hd.buf] = BufWrite(S.bufs[hd.buf], data)])

\* f.read(): everything from the buffer's position on.
Handle_read(S, h) ==
    LET hd == S.handles[h]
        buf == S.bufs[hd.buf]
        raw == SubSeq(buf.value, buf.pos + 1, Len(buf.value))
        S2 == [S EXCEPT !.bufs[hd.buf].pos = Len(buf.value)]
    IN  IF ~hd.text THEN [Ok(S2) EXCEPT !.data = raw]
        ELSE IF ~Utf8Decode(raw).ok THEN Raise("UnicodeDecodeError", Root, S)
        ELSE [Ok(S2) EXCEPT !.data = UniversalNewlines(Utf8Decode(raw).text)]

\* f.close(): a wrapper flushes first; the caller lets go of the handle.
Handle_close(S, h) ==
    LET hd == S.handles[h]
        flushed == BufWrite(S.bufs[hd.buf], hd.pending)
    IN  Given([S EXCEPT !.bufs[hd.buf] = BufClose(flushed),
                        !.handles = Drop(S.handles, h)],
              LAMBDA closed : Ok(Collect(closed)))

(***************************************************************************)
(* The contents of a stored file, and the tree as the caller can see it:   *)
(* every stored entry by the path that owns it, with its kind, its link    *)
(* target and its contents.                                                *)
(***************************************************************************)
Contents(S, id) == BufBytes(S.bufs[S.nodes[id].contents])

Entry(S, id) ==
    [kind |-> S.nodes[id].kind,
     source |-> S.nodes[id].source,
     contents |-> IF S.nodes[id].kind = "File" THEN Contents(S, id) ELSE <<>>]

RECURSIVE EntriesBelow(_, _, _)
EntriesBelow(S, id, segs) ==
    UNION {{<<Append(segs, n), Entry(S, S.nodes[id].children[n])>>}
           \cup EntriesBelow(S, S.nodes[id].children[n], Append(segs, n))
           : n \in DOMAIN S.nodes[id].children}

Tree(S) == EntriesBelow(S, rootId, <<>>)

(***************************************************************************)
(* The state machine: one engine, one caller.                              *)
(***************************************************************************)
\* last is the operation of the last call that changed the engine; a call
\* that raises, and a call that only asks, leave no trace.
VARIABLES nodes, bufs, handles, last

vars == <<nodes, bufs, handles, last>>

Cur == [nodes |-> nodes, bufs |-> bufs, handles |-> handles]

\* The bounds of a run: stored nodes, bytes per buffer, handles held.
Limits(maxNodes, maxLen, maxHandles) ==
    [nodes |-> maxNodes, len |-> maxLen, handles |-> maxHandles]

Fits(S, lim) ==
    /\ Cardinality(DOMAIN S.nodes) <= lim.nodes + 1
    /\ Cardinality(DOMAIN S.handles) <= lim.handles
    /\ \A b \in DOMAIN S.bufs : Len(BufBytes(S.bufs[b])) <= lim.len
    /\ \A h \in DOMAIN S.handles :
          Len(S.bufs[S.handles[h].buf].value) + Len(S.handles[h].pending) <= lim.len

Step(op, r, lim) ==
    \E left \in {r.S} :
        /\ Fits(left, lim)
        /\ nodes' = left.nodes /\ bufs' = left.bufs /\ handles' = left.handles
        /\ last' = IF left = Cur THEN last ELSE op

Init ==
    /\ nodes = [i \in {rootId} |-> DirectoryRoot]
    /\ bufs = [b \in {} |-> BytesIO(<<>>)]
    /\ handles = [h \in {} |-> Handle(0, FileMode("r", TRUE))]
    /\ last = "FS"

CreateDirectory(path, lim) ==
    Step("create_directory", State_create_directory(Cur, path), lim)
ListDirectory(path, lim) ==
    Step("list_directory", State_list_directory(Cur, path), lim)
RemoveEmptyDirectory(path, lim) ==
    Step("remove_empty_directory", State_remove_empty_directory(Cur, path), lim)
TemporaryDirectory(hex, lim) ==
    Step("temporary_directory", State_temporary_directory(Cur, hex), lim)
RemoveFile(path, lim) ==
    Step("remove_file", State_remove_file(Cur, path), lim)
MakeLink(source, to, lim) ==
    Step("link", State_link(Cur, source, to), lim)
ReadLink(path, lim) ==
    Step("readlink", State_readlink(Cur, path), lim)
Exists(path, lim) == Step("exists", State_exists(Cur, path), lim)
IsDir(path, lim) == Step("is_dir", State_is_dir(Cur, path), lim)
IsFile(path, lim) == Step("is_file", State_is_file(Cur, path), lim)
IsLink(path, lim) == Step("is_link", State_is_link(Cur, path), lim)

(***************************************************************************)
(* A caller that uses a handle in one go, as in                            *)
(*     with fs.open(path, mode) as f: f.write(data)                        *)
(* and never holds one between calls.                                      *)
(***************************************************************************)
\* The handle of call r is written (data, when there is any) or read, and
\* closed.
Used(r, data) ==
    IF r.err # "ok" THEN r
    ELSE IF r.S.handles[r.handle].activity = "r"
    THEN Given(Handle_read(r.S, r.handle),
               LAMBDA got : IF got.err # "ok"
                            THEN [got EXCEPT !.S = Handle_close(r.S, r.handle).S]
                            ELSE [Handle_close(got.S, r.handle) EXCEPT !.data = got.data])
    ELSE IF data = <<>> THEN Handle_close(r.S, r.handle)
    ELSE Given(Handle_write(r.S, r.handle, data).S,
               LAMBDA written : Handle_close(written, r.handle))

\* with fs.open(path, letters) as f: f.write(data), or f.read()
Opened(S, path, letters, data) ==
    Given(State_open_file(S, path, letters), LAMBDA r : Used(r, data))

\* with fs.create(path) as f: f.write(data)
Created(S, path, data) ==
    Given(State_create_file(S, path), LAMBDA r : Used(r, data))

WithOpen(path, letters, data, lim) ==
    Step("open_file", Opened(Cur, path, letters, data), lim)

WithCreate(path, data, lim) ==
    Step("create_file", Created(Cur, path, data), lim)

\* What a caller writes in one go: nothing or one code point, and nothing
\* where the mode does not write.
Payloads(letters, chars, bytes) ==
    IF ~ValidMode(letters) \/ parse_mode(letters).activity = "r" THEN {<<>>}
    ELSE IF parse_mode(letters).text THEN {<<>>} \cup {<<c>> : c \in chars}
    ELSE {<<>>} \cup {<<c>> : c \in bytes}

\* The calls on the tree, by a caller that passes paths from `paths` and
\* link sources from `sources`, and asks about the paths in `asked`.
TreeCalls(paths, sources, asked, lim) ==
    \/ \E path \in paths : CreateDirectory(path, lim)
    \/ \E path \in asked : ListDirectory(path, lim)
    \/ \E path \in paths : RemoveEmptyDirectory(path, lim)
    \/ \E hex \in Names : TemporaryDirectory(hex, lim)
    \/ \E path \in paths : RemoveFile(path, lim)
    \/ \E source \in sources, to \in paths : MakeLink(source, to, lim)
    \/ \E path \in asked : ReadLink(path, lim)
    \/ \E path \in asked : Exists(path, lim)
    \/ \E path \in asked : IsDir(path, lim)
    \/ \E path \in asked : IsFile(path, lim)
    \/ \E path \in asked : IsLink(path, lim)

\* The calls of a caller that uses each handle in one go.
SequentialCalls(paths, sources, asked, modes, chars, bytes, lim) ==
    \/ TreeCalls(paths, sources, asked, lim)
    \/ \E path \in paths, letters \in modes :
          \E data \in Payloads(letters, chars, bytes) : WithOpen(path, letters, data, lim)
    \/ \E path \in paths : WithCreate(path, <<>>, lim)

(***************************************************************************)
(* Spec: the whole tree.  Every path of up to MaxDepth segments, absolute  *)
(* and relative link sources, one payload.  The calls that only ask change *)
(* nothing, whatever path they are given; the formulas below put them to   *)
(* every path.                                                             *)
(***************************************************************************)
TopPaths == {Path(<<>>)} \cup {Path(<<n>>) : n \in Names}
LinkSources == {Path(<<n>>) : n \in Names} \cup {RelativePath(<<"a">>)}
TreeModes == {<<"r">>, <<"w">>, <<"a">>, <<"x">>}

Next ==
    SequentialCalls(AbsPaths, LinkSources, TopPaths, TreeModes, {10}, {10},
                    Limits(MaxNodes, MaxLen, 0))

Spec == Init /\ [][Next]_vars

(***************************************************************************)
(* SpecFiles: directories and files only, written as text and as bytes,    *)
(* with a letter of two bytes and a carriage return.                       *)
(***************************************************************************)
FileModes == {<<"r">>, <<"w">>, <<"a">>, <<"r", "b">>, <<"w", "b">>, <<"a", "b">>}

FileCalls(paths, modes, chars, bytes, lim) ==
    \/ \E path \in paths : CreateDirectory(path, lim)
    \/ \E path \in paths : RemoveEmptyDirectory(path, lim)
    \/ \E path \in paths : RemoveFile(path, lim)
    \/ \E path \in paths, letters \in modes :
          \E data \in Payloads(letters, chars, bytes) : WithOpen(path, letters, data, lim)
    \/ \E path \in paths : WithCreate(path, <<>>, lim)

NextFiles ==
    FileCalls(AbsPaths, FileModes, {1513}, {13}, Limits(MaxNodes, MaxLen + 1, 0))

SpecFiles == Init /\ [][NextFiles]_vars

(***************************************************************************)
(* SpecLinks: entries of the root directory only, under every name, so     *)
(* that links can point at links that point at a third entry.              *)
(***************************************************************************)
RootPaths == {Path(<<NameSeq[i]>>) : i \in DOMAIN NameSeq}

NextLinks ==
    SequentialCalls(RootPaths, RootPaths, RootPaths, TreeModes, {10}, {10},
                    Limits(MaxNodes + 1, MaxLen, 0))

SpecLinks == Init /\ [][NextLinks]_vars

(***************************************************************************)
(* SpecDescent: one node more than Spec, and links that name the root or a *)
(* directory of it, so that a caller can go through a link to the entries  *)
(* of the directory behind it.                                             *)
(***************************************************************************)
DescentSources == {Root, Path(<<NameSeq[2]>>)}

NextDescent ==
    SequentialCalls(AbsPaths, DescentSources, TopPaths, {<<"w">>}, {10}, {10},
                    Limits(MaxNodes + 1, MaxLen, 0))

SpecDescent == Init /\ [][NextDescent]_vars

(***************************************************************************)
(* SpecHandles: a caller that holds handles between calls, as in           *)
(*     f = fs.open(path, "wb"); g = fs.open(path, "rb"); f.write(data)     *)
(* One file of the root, opened for reading and appending in binary, for   *)
(* writing as text, and created (for writing in binary); up to MaxHandles  *)
(* handles held at a time.  A handle opened for reading is read, the others are         *)
(* written.                                                                *)
(***************************************************************************)
MaxHandles == 2

OpenFile(path, letters, lim) ==
    Step("open_file", State_open_file(Cur, path, letters), lim)
CreateFile(path, lim) ==
    Step("create_file", State_create_file(Cur, path), lim)
Write(h, data, lim) == Step("write", Handle_write(Cur, h, data), lim)
Read(h, lim) == Step("read", Handle_read(Cur, h), lim)
Close(h, lim) == Step("close", Handle_close(Cur, h), lim)

HandleCalls(paths, modes, chars, bytes, lim) ==
    \/ \E path \in paths, letters \in modes : OpenFile(path, letters, lim)
    \/ \E path \in paths : CreateFile(path, lim)
    \/ \E h \in DOMAIN handles :
          /\ handles[h].activity # "r"
          /\ \E data \in {<<c>> : c \in IF handles[h].text THEN chars ELSE bytes} :
                Write(h, data, lim)
    \/ \E h \in DOMAIN handles : handles[h].activity = "r" /\ Read(h, lim)
    \/ \E h \in DOMAIN handles : Close(h, lim)
    \/ \E path \in paths : RemoveFile(path, lim)

FilePaths == {Path(<<NameSeq[1]>>)}
HeldModes == {<<"r", "b">>, <<"w">>, <<"a", "b">>}

NextHandles ==
    HandleCalls(FilePaths, HeldModes, {10}, {10}, Limits(MaxNodes, MaxLen, MaxHandles))

SpecHandles == Init /\ [][NextHandles]_vars

(***************************************************************************)
(* Every call a caller can make in state S, as what it gives back.         *)
(***************************************************************************)
AnySources == TopPaths \cup RelPaths

OpenCalls(S) == {State_open_file(S, p, m) : p \in AbsPaths, m \in ModeStrings}

MutatingCalls(S) ==
    {State_create_directory(S, p) : p \in AbsPaths}
    \cup {State_remove_empty_directory(S, p) : p \in AbsPaths}
    \cup {State_temporary_directory(S, n) : n \in Names}
    \cup {State_create_file(S, p) : p \in AbsPaths}
    \cup OpenCalls(S)
    \cup {State_remove_file(S, p) : p \in AbsPaths}
    \cup {State_link(S, src, p) : src \in LinkSources, p \in AbsPaths}

AskingCalls(S) ==
    {State_list_directory(S, p) : p \in AbsPaths}
    \cup {State_readlink(S, p) : p \in AbsPaths}
    \cup {State_exists(S, p) : p \in AbsPaths}
    \cup {State_is_dir(S, p) : p \in AbsPaths}
    \cup {State_is_file(S, p) : p \in AbsPaths}
    \cup {State_is_link(S, p) : p \in AbsPaths}

AllCalls(S) == MutatingCalls(S) \cup AskingCalls(S)

ValidModes == {m \in ModeStrings : ValidMode(m)}

\* One call of each operation of the engine: the operation, the source of a
\* link and the letters of an open mode.
Op(op, source, letters) == [op |-> op, source |-> source, letters |-> letters]

OpenModes == {<<"r">>, <<"w">>, <<"a">>, <<"r", "b">>, <<"w", "b">>, <<"a", "b">>}
CreatingOps == {Op("create_directory", Root, <<>>), Op("create_file", Root, <<>>)}
                  \cup {Op("link", s, <<>>) : s \in TopPaths}
RemovingOps == {Op(o, Root, <<>>) : o \in {"remove_empty_directory", "remove_file"}}
OpeningOps == {Op("open_file", Root, m) : m \in OpenModes}
AskingOps ==
    {Op(o, Root, <<>>) : o \in {"list_directory", "readlink", "exists", "is_dir",
                                "is_file", "is_link"}}
Ops == CreatingOps \cup RemovingOps \cup OpeningOps \cup AskingOps

\* fs.<op>(path); a handle is written one line feed, or read, and closed.
Do(S, c, path) ==
    CASE c.op = "create_directory" -> State_create_directory(S, path)
      [] c.op = "list_directory" -> State_list_directory(S, path)
      [] c.op = "remove_empty_directory" -> State_remove_empty_directory(S, path)
      [] c.op = "create_file" -> Created(S, path, <<10>>)
      [] c.op = "open_file" -> Opened(S, path, c.letters, <<10>>)
      [] c.op = "remove_file" -> State_remove_file(S, path)
      [] c.op = "link" -> State_link(S, c.source, path)
      [] c.op = "readlink" -> State_readlink(S, path)
      [] c.op = "exists" -> State_exists(S, path)
      [] c.op = "is_dir" -> State_is_dir(S, path)
      [] c.op = "is_file" -> State_is_file(S, path)
      [] c.op = "is_link" -> State_is_link(S, path)

\* What a call gave, but for the path its error names.
Outcome(r) == [r EXCEPT !.errpath = Root]

(***************************************************************************)
(* Link cycles, read off the stored entries: a link whose absolute target  *)
(* is the path of a stored link, and so on back to the first.              *)
(***************************************************************************)
LinkTargets(S) ==
    {<<e[1], e[2].source.segs>> : e \in {x \in Tree(S) : x[2].kind = "Link" /\ ~x[2].source.rel}}

RECURSIVE Hops(_, _, _)
\* The paths reached from segs by 1..n hops along stored links.
Hops(links, segs, n) ==
    IF n = 0 THEN {}
    ELSE LET next == {l[2] : l \in {x \in links : x[1] = segs}}
         IN  next \cup UNION {Hops(links, t, n - 1) : t \in next}

OnCycle(S, segs) == segs \in Hops(LinkTargets(S), segs, Cardinality(DOMAIN S.nodes))

\* segs is a cycle member or lies below one.
InLoop(S, segs) == \E k \in 1..Len(segs) : OnCycle(S, SubSeq(segs, 1, k))

(***************************************************************************)
(* C1: in a tree with a link cycle, every open_file (read, write, append)  *)
(* and every create_file on a cycle member or on a path below one fails    *)
(* with SymbolicLoop.  The code raises no SymbolicLoop anywhere: the       *)
(* lookup recurses until the interpreter stops it, and create_file on the  *)
(* member itself answers FileExists.                                       *)
(***************************************************************************)
C1_LoopFailsWithSymbolicLoop ==
    \A p \in AbsPaths :
        InLoop(Cur, p.segs) =>
            /\ State_create_file(Cur, p).err = "SymbolicLoop"
            /\ \A m \in ValidModes : State_open_file(Cur, p, m).err = "SymbolicLoop"

(***************************************************************************)
(* C2: a call that fails leaves the tree (entries, kinds, link targets,    *)
(* file contents) exactly as it was.                                       *)
(***************************************************************************)
C2_FailureLeavesTreeUnchanged ==
    LET before == Tree(Cur)
    IN  \A r \in AllCalls(Cur) : r.err # "ok" => Tree(r.S) = before

\* A tree with a written file in which a read-mode open of an absent name of an
\* existing directory fails, and so do a create of an existing entry and a
\* remove of a missing one.
C2_Witness ==
    /\ \E e \in Tree(Cur) : e[2].kind = "File" /\ e[2].contents # <<>>
    /\ \E p \in AbsPaths :
          /\ KindOf(Cur, State_getitem(Cur, p)) = "DirectoryChild"
          /\ State_open_file(Cur, p, <<"r">>).err = "FileNotFound"
          /\ State_remove_file(Cur, p).err = "FileNotFound"
    /\ \E p \in AbsPaths : State_create_file(Cur, p).err = "FileExists"

(***************************************************************************)
(* C3: every call succeeds or fails with an error of the taxonomy.  The    *)
(* code lets KeyError out of remove_empty_directory on an empty root, and  *)
(* RecursionError out of every call that follows a link cycle.             *)
(***************************************************************************)
C3_ClosedTaxonomy ==
    \A r \in AllCalls(Cur) : r.err \in Taxonomy \cup {"ok"}

(***************************************************************************)
(* C4: the root path always resolves to the root Directory the engine was  *)
(* built with; exists and is_dir are true of it, and neither remove_file   *)
(* nor remove_empty_directory on the root path changes that.               *)
(***************************************************************************)
RootIsThere(S) ==
    /\ State_getitem(S, Root) = Stored(rootId)
    /\ rootId \in DOMAIN S.nodes
    /\ S.nodes[rootId].kind = "Directory"
    /\ S.nodes[rootId].parent = rootId
    /\ State_exists(S, Root) = Bool(S, TRUE)
    /\ State_is_dir(S, Root) = Bool(S, TRUE)

C4_RootAlwaysExists ==
    /\ RootIsThere(Cur)
    /\ RootIsThere(State_remove_file(Cur, Root).S)
    /\ RootIsThere(State_remove_empty_directory(Cur, Root).S)

\* The root is empty again after a removal, so that remove_empty_directory
\* on the root path gets as far as deleting.
C4_Witness ==
    /\ last \in {"remove_empty_directory", "remove_file"}
    /\ DOMAIN nodes[rootId].children = {}
    /\ State_remove_empty_directory(Cur, Root).err = "KeyError"
    /\ State_remove_file(Cur, Root).err = "PermissionError"

(***************************************************************************)
(* What a caller does with a file in one go, and what it writes.           *)
(***************************************************************************)
Letters(activity, text) == IF text THEN <<activity>> ELSE <<activity, "b">>

Written(S, path, letters, data) == Opened(S, path, letters, data)
ReadBack(S, path, letters) == Opened(S, path, letters, <<>>)

\* path is absent directly under an existing directory, or an existing file.
Writable(S, path) == KindOf(S, State_getitem(S, path)) \in {"File", "DirectoryChild"}

ContentsAt(S, path) == Contents(S, State_getitem(S, path).id)

Encoded(text, data) == IF text THEN Utf8Encode(data) ELSE data

\* Payloads of up to two code points or bytes: nothing, a line feed, a
\* carriage return, a letter of two bytes and its bytes, and line ends.
Payloads2(text) ==
    IF text
    THEN {<<>>} \cup {<<c>> : c \in Chars} \cup {<<13, 10>>, <<10, 13>>, <<1513, 10>>}
    ELSE {<<>>} \cup {<<b>> : b \in Bytes} \cup {<<13, 10>>, <<215, 169>>}
One(text) == IF text THEN {<<10>>, <<1513>>} ELSE {<<13>>, <<215>>}
\* A letter of two bytes as text, a carriage return as a byte.
Values(text) == IF text THEN {<<1513>>} ELSE {<<13>>}

\* Writing x to path, closing, and reading twice gives `back` both times.
RoundTrip(S, path, text, x, back) ==
    \A w \in {Written(S, path, Letters("w", text), x)} :
    \A r \in {ReadBack(w.S, path, Letters("r", text))} :
    \A again \in {ReadBack(r.S, path, Letters("r", text))} :
        /\ w.err = "ok" /\ r.err = "ok" /\ again.err = "ok"
        /\ r.data = back /\ again.data = back
        /\ ContentsAt(again.S, path) = Encoded(text, x)

(***************************************************************************)
(* C5 as claimed: for every payload x and every path that is absent        *)
(* directly under an existing directory or an existing file, writing x in  *)
(* write mode, closing and reading in read mode yields exactly x.  A text  *)
(* handle reads with universal newlines, so a carriage return comes back   *)
(* as a line feed.                                                         *)
(***************************************************************************)
C5_RoundTripEveryPayload ==
    \A p \in AbsPaths : Writable(Cur, p) =>
        \A text \in BOOLEAN : \A x \in Payloads2(text) : RoundTrip(Cur, p, text, x, x)

(***************************************************************************)
(* C5 amended: in binary mode the read yields exactly x; in text mode it   *)
(* yields x with every CR LF and every remaining CR replaced by LF, which  *)
(* is x when x holds no carriage return; the file holds the encoded x and  *)
(* stays readable after the writing handle is closed.                      *)
(***************************************************************************)
C5_RoundTrip ==
    \A p \in AbsPaths : Writable(Cur, p) =>
        /\ \A x \in Payloads2(FALSE) : RoundTrip(Cur, p, FALSE, x, x)
        /\ \A x \in Payloads2(TRUE) :
              /\ RoundTrip(Cur, p, TRUE, x, UniversalNewlines(x))
              /\ (13 \notin {x[i] : i \in DOMAIN x}) => RoundTrip(Cur, p, TRUE, x, x)

\* A written file whose contents are replaced by a text of two code points,
\* three bytes, and an absent name that takes two bytes.
C5_Witness ==
    /\ last = "open_file"
    /\ \E p \in AbsPaths :
          /\ KindOf(Cur, State_getitem(Cur, p)) = "File"
          /\ ContentsAt(Cur, p) # <<>>
          /\ RoundTrip(Cur, p, TRUE, <<1513, 10>>, <<1513, 10>>)
    /\ \E q \in AbsPaths :
          /\ KindOf(Cur, State_getitem(Cur, q)) = "DirectoryChild"
          /\ RoundTrip(Cur, q, FALSE, <<215, 169>>, <<215, 169>>)

(***************************************************************************)
(* C6 as claimed: after writing x to p by a write-mode or append-mode      *)
(* open, p absent or existing before, and then appending y, the file holds *)
(* x followed by y, whichever representation each open used.  An appending *)
(* first open of an existing file keeps what the file held.                *)
(***************************************************************************)
FirstOpens == {"w", "a"}

Appended(S, p, first, text1, x, text2, y) ==
    Given(Written(S, p, Letters(first, text1), x).S,
          LAMBDA then : Written(then, p, Letters("a", text2), y))

C6_AppendGivesXThenY ==
    \A p \in AbsPaths : Writable(Cur, p) =>
        \A first \in FirstOpens, text1 \in BOOLEAN, text2 \in BOOLEAN :
            \A x \in One(text1), y \in Values(text2) :
                \A r \in {Appended(Cur, p, first, text1, x, text2, y)} :
                    /\ r.err = "ok"
                    /\ ContentsAt(r.S, p) = Encoded(text1, x) \o Encoded(text2, y)

(***************************************************************************)
(* C6 amended: the file then holds what it held before the first open if   *)
(* that open appended to an existing file, and nothing otherwise, followed *)
(* by x, followed by y, whichever representation each open used.           *)
(***************************************************************************)
Kept(S, p, first) ==
    IF first = "a" /\ KindOf(S, State_getitem(S, p)) = "File" THEN ContentsAt(S, p)
    ELSE <<>>

C6_AppendComposes ==
    \A p \in AbsPaths : Writable(Cur, p) =>
        \A first \in FirstOpens, text1 \in BOOLEAN, text2 \in BOOLEAN :
            \A x \in One(text1), y \in Values(text2) :
                \A r \in {Appended(Cur, p, first, text1, x, text2, y)} :
                    /\ r.err = "ok"
                    /\ ContentsAt(r.S, p)
                         = Kept(Cur, p, first) \o Encoded(text1, x) \o Encoded(text2, y)

\* A file that holds something, to which a text and then a byte are appended.
C6_Witness ==
    /\ last = "open_file"
    /\ \E p \in AbsPaths :
          /\ KindOf(Cur, State_getitem(Cur, p)) = "File"
          /\ ContentsAt(Cur, p) # <<>>
          /\ ContentsAt(Appended(Cur, p, "a", TRUE, <<1513>>, FALSE, <<13>>).S, p)
               = ContentsAt(Cur, p) \o <<215, 169, 13>>
          /\ ContentsAt(Appended(Cur, p, "w", TRUE, <<1513>>, FALSE, <<13>>).S, p)
               = <<215, 169, 13>>

(***************************************************************************)
(* Links.                                                                  *)
(***************************************************************************)
\* The stored link that path resolves to has an absolute source.
LinkTo(S, path) ==
    /\ KindOf(S, State_getitem(S, path)) = "Link"
    /\ ~S.nodes[State_getitem(S, path).id].source.rel

SourceOf(S, path) == S.nodes[State_getitem(S, path).id].source

(***************************************************************************)
(* C7: after link(source=S, to=T) with S absent directly under an existing *)
(* directory or an existing file, writing v through T creates or rewrites  *)
(* the file at S and leaves the link at T a link, just as writing v to S   *)
(* does, and v is then read back from S and through T alike.               *)
(***************************************************************************)
C7_LinkTransparency ==
    \A source \in AbsPaths, to \in AbsPaths :
        \A l \in {State_link(Cur, source, to)} :
            (l.err = "ok" /\ Writable(l.S, source)) =>
                \A text \in BOOLEAN : \A v \in Values(text) :
                    \A viaT \in {Written(l.S, to, Letters("w", text), v)} :
                    \A atS \in {Written(l.S, source, Letters("w", text), v)} :
                        /\ viaT.err = "ok" /\ atS.err = "ok"
                        /\ KindOf(viaT.S, State_getitem(viaT.S, source)) = "File"
                        /\ LinkTo(viaT.S, to)
                        /\ ContentsAt(viaT.S, source) = Encoded(text, v)
                        /\ Tree(viaT.S) = Tree(atS.S)
                        /\ ReadBack(viaT.S, source, Letters("r", text)).data = v
                        /\ ReadBack(atS.S, to, Letters("r", text)).data = v
                        /\ ReadBack(atS.S, to, Letters("r", text)).err = "ok"

\* A file that holds something, written through the link that names it.
C7_Witness ==
    /\ last = "open_file"
    /\ \E T \in AbsPaths :
          /\ LinkTo(Cur, T)
          /\ KindOf(Cur, State_getitem(Cur, SourceOf(Cur, T))) = "File"
          /\ ContentsAt(Cur, SourceOf(Cur, T)) # <<>>
          /\ ReadBack(Cur, T, <<"r", "b">>).data = ContentsAt(Cur, SourceOf(Cur, T))

(***************************************************************************)
(* C8: for every chain of links L1 -> ... -> LN -> S that ends at a path S *)
(* which is absent directly under an existing directory or an existing     *)
(* file, a write opened on L1 does to the tree what the same write opened  *)
(* on S does, and a read opened on L1 gives what a read opened on S gives. *)
(***************************************************************************)
RECURSIVE FinalSource(_, _, _)
\* Where the links lead from path, following at most n of them.
FinalSource(S, path, n) ==
    IF n = 0 \/ ~LinkTo(S, path) THEN path
    ELSE FinalSource(S, SourceOf(S, path), n - 1)

RECURSIVE ChainLength(_, _, _)
ChainLength(S, path, n) ==
    IF n = 0 \/ ~LinkTo(S, path) THEN 0
    ELSE 1 + ChainLength(S, SourceOf(S, path), n - 1)

C8_ChainActsOnFinalSource ==
    \A L1 \in RootPaths :
        \A S \in {FinalSource(Cur, L1, Len(NameSeq))} :
            (LinkTo(Cur, L1) /\ Writable(Cur, S)) =>
                /\ ReadBack(Cur, L1, <<"r">>).err = ReadBack(Cur, S, <<"r">>).err
                /\ ReadBack(Cur, L1, <<"r">>).data = ReadBack(Cur, S, <<"r">>).data
                /\ \A first \in FirstOpens, text \in BOOLEAN : \A v \in Values(text) :
                      \A viaL \in {Written(Cur, L1, Letters(first, text), v)} :
                      \A atS \in {Written(Cur, S, Letters(first, text), v)} :
                          /\ viaL.err = "ok" /\ atS.err = "ok"
                          /\ Tree(viaL.S) = Tree(atS.S)
                          /\ ContentsAt(viaL.S, S) = Kept(Cur, S, first) \o Encoded(text, v)
                          /\ ReadBack(viaL.S, L1, <<"r", "b">>).data = ContentsAt(viaL.S, S)

\* A chain of two links, and at its end a file that was written through the
\* first link.
C8_Witness ==
    /\ last = "open_file"
    /\ \E L1 \in RootPaths :
          /\ ChainLength(Cur, L1, Len(NameSeq)) = 2
          /\ \E S \in {FinalSource(Cur, L1, Len(NameSeq))} :
                /\ KindOf(Cur, State_getitem(Cur, S)) = "File"
                /\ ContentsAt(Cur, S) # <<>>
                /\ ReadBack(Cur, L1, <<"r", "b">>).data = ContentsAt(Cur, S)

(***************************************************************************)
(* C9: readlink on a link gives exactly the source the link was made with: *)
(* relative if it was relative, the next link and not its target if it was *)
(* a link, also when the link is stored inside a directory reached through *)
(* another link; and no later call makes readlink give another path for as *)
(* long as the link is there.                                              *)
(***************************************************************************)
C9_ReadlinkGivesSource ==
    /\ \A source \in AnySources \cup AbsPaths, to \in AbsPaths :
          \A l \in {State_link(Cur, source, to)} :
              l.err = "ok" =>
                  /\ State_readlink(l.S, to).err = "ok"
                  /\ State_readlink(l.S, to).target = source
                  /\ State_readlink(l.S, to).S = l.S
    /\ \A links \in {{p \in AbsPaths : State_readlink(Cur, p).err = "ok"}} :
          \A call \in MutatingCalls(Cur), p \in links :
              State_readlink(call.S, p).err = "ok"
                  => State_readlink(call.S, p).target = State_readlink(Cur, p).target

\* The link made last has a link as its source, and readlink gives that
\* link and not the path it leads on to.
C9_Witness ==
    /\ last = "link"
    /\ \E T \in AbsPaths :
          /\ LinkTo(Cur, T)
          /\ LinkTo(Cur, SourceOf(Cur, T))
          /\ State_readlink(Cur, T).target = SourceOf(Cur, T)
          /\ State_readlink(Cur, T).target # State_readlink(Cur, SourceOf(Cur, T)).target

(***************************************************************************)
(* C10: for every link T with absolute source S, is_link(T) is true, and   *)
(* wherever exists, is_dir and is_file answer for T they answer as they do *)
(* for S: false for all three while S is absent, and as S is once S has    *)
(* been created, removed or replaced.                                      *)
(***************************************************************************)
Stat(S, path) == <<State_exists(S, path), State_is_dir(S, path), State_is_file(S, path)>>

C10_LinkMirrorsSource ==
    \A T \in AbsPaths :
        LinkTo(Cur, T) =>
            /\ State_is_link(Cur, T) = Bool(Cur, TRUE)
            /\ \A t \in {Stat(Cur, T)}, s \in {Stat(Cur, SourceOf(Cur, T))} :
                  \A i \in DOMAIN t : t[i].err = "ok" => t[i] = s[i]
            /\ KindOf(Cur, State_getitem(Cur, SourceOf(Cur, T))) = "DirectoryChild"
                  => \A i \in DOMAIN Stat(Cur, T) : Stat(Cur, T)[i] = Bool(Cur, FALSE)

\* A link that dangled until the directory it names was made.
C10_Witness ==
    /\ last = "create_directory"
    /\ \E T \in AbsPaths :
          /\ LinkTo(Cur, T)
          /\ KindOf(Cur, State_getitem(Cur, SourceOf(Cur, T))) = "Directory"
          /\ State_is_dir(Cur, T) = Bool(Cur, TRUE)
          /\ State_exists(Cur, T) = Bool(Cur, TRUE)
          /\ State_is_file(Cur, T) = Bool(Cur, FALSE)
          /\ State_is_link(Cur, SourceOf(Cur, T)) = Bool(Cur, FALSE)

(***************************************************************************)
(* C11: where L is a link, or the first of a chain of links, that leads to *)
(* the existing directory D, every operation on L/x gives what it gives on *)
(* D/x (the same result or the same error) and leaves the same engine      *)
(* behind; create_directory, create_file and link on L/x store the new     *)
(* entry in D under x, and after every call that succeeded L/x and D/x     *)
(* answer every question alike.                                            *)
(***************************************************************************)
Created_kind(c) ==
    CASE c.op = "create_directory" -> "Directory"
      [] c.op = "create_file" -> "File"
      [] c.op = "link" -> "Link"

C11_LinkInPathIsFollowed ==
    \A L \in AbsPaths :
        \A D \in {FinalSource(Cur, L, MaxNodes + 1)} :
            (LinkTo(Cur, L) /\ KindOf(Cur, State_getitem(Cur, D)) = "Directory") =>
                \A x \in Names, c \in Ops :
                    \A viaL \in {Do(Cur, c, descendant(L, x))},
                       atD \in {Do(Cur, c, descendant(D, x))} :
                        /\ Outcome(viaL) = Outcome(atD)
                        /\ (viaL.err = "ok" /\ c \in CreatingOps) =>
                              /\ State_getitem(viaL.S, descendant(D, x))
                                    = Stored(Append(State_getitem(Cur, D).id, x))
                              /\ KindOf(viaL.S, State_getitem(viaL.S, descendant(D, x)))
                                    = Created_kind(c)
                              /\ State_getitem(viaL.S, descendant(L, x))
                                    = State_getitem(viaL.S, descendant(D, x))
                        /\ viaL.err = "ok" =>
                              \A ask \in AskingOps :
                                  Outcome(Do(viaL.S, ask, descendant(L, x)))
                                    = Outcome(Do(viaL.S, ask, descendant(D, x)))

\* A directory made through a link to the directory that now holds it.
C11_Witness ==
    /\ last = "create_directory"
    /\ \E L \in AbsPaths, x \in Names :
          /\ LinkTo(Cur, L)
          /\ SourceOf(Cur, L) # Root
          /\ KindOf(Cur, State_getitem(Cur, SourceOf(Cur, L))) = "Directory"
          /\ DOMAIN nodes[State_getitem(Cur, SourceOf(Cur, L)).id].children = {x}
          /\ State_is_dir(Cur, descendant(L, x)) = Bool(Cur, TRUE)
          /\ State_is_dir(Cur, descendant(SourceOf(Cur, L), x)) = Bool(Cur, TRUE)

(***************************************************************************)
(* C12: a link stored at T with the relative target R stands for the entry *)
(* at T.parent() joined with R: exists, is_dir, is_file, list_directory    *)
(* and a reading open_file on T, and on T/x for every name x, give what    *)
(* they give there.  The code walks the segments of R from the root.       *)
(***************************************************************************)
Joined(path, rel) == Path(parent(path).segs \o rel.segs)

Dereferencing ==
    {Op(o, Root, <<>>) : o \in {"exists", "is_dir", "is_file", "list_directory"}}
        \cup {Op("open_file", Root, <<"r">>)}

C12_RelativeTargetFromLinkLocation ==
    \A T \in AbsPaths :
        (KindOf(Cur, State_getitem(Cur, T)) = "Link" /\ SourceOf(Cur, T).rel) =>
            \A there \in {Joined(T, SourceOf(Cur, T))} :
                \A c \in Dereferencing :
                    /\ Outcome(Do(Cur, c, T)) = Outcome(Do(Cur, c, there))
                    /\ \A x \in Names :
                          Outcome(Do(Cur, c, descendant(T, x)))
                            = Outcome(Do(Cur, c, descendant(there, x)))

(***************************************************************************)
(* Paths of up to one segment more than a caller of Spec passes.           *)
(***************************************************************************)
Deeper == AbsPaths \cup {descendant(p, x) : p \in AbsPaths, x \in Names}

\* An ancestor of path is missing: its parent is no entry and cannot be made
\* one by creating path.
AncestorMissing(S, path) == KindOf(S, State_getitem(S, path)) = "NoSuchEntry"

(***************************************************************************)
(* C13 as claimed: for every path p with a missing ancestor, create_file   *)
(* of p fails with FileNotFound and the error names the parent of p.  The  *)
(* code names p itself.                                                    *)
(***************************************************************************)
C13_CreateFileNamesParent ==
    \A p \in Deeper :
        AncestorMissing(Cur, p) =>
            \A r \in {State_create_file(Cur, p)} :
                r.err = "FileNotFound" /\ r.errpath = parent(p)

(***************************************************************************)
(* C13 amended: for every path p with a missing ancestor, create_file of p *)
(* fails with FileNotFound, the error names p itself, and nothing changes. *)
(***************************************************************************)
C13_CreateFileNamesPath ==
    \A p \in Deeper :
        AncestorMissing(Cur, p) =>
            \A r \in {State_create_file(Cur, p)} :
                r.err = "FileNotFound" /\ r.errpath = p /\ r.S = Cur

\* A tree with a directory in it, a path below a name that is missing from
\* that directory, and a path below a link that leads nowhere.
C13_Witness ==
    /\ \E D \in AbsPaths \ {Root}, x \in Names, y \in Names :
          /\ KindOf(Cur, State_getitem(Cur, D)) = "Directory"
          /\ KindOf(Cur, State_getitem(Cur, descendant(D, x))) = "DirectoryChild"
          /\ State_create_file(Cur, descendant(descendant(D, x), y)).err = "FileNotFound"
          /\ State_create_file(Cur, descendant(descendant(D, x), y)).errpath
                = descendant(descendant(D, x), y)
    /\ \E L \in AbsPaths, y \in Names :
          /\ LinkTo(Cur, L)
          /\ KindOf(Cur, State_getitem(Cur, SourceOf(Cur, L))) = "DirectoryChild"
          /\ AncestorMissing(Cur, descendant(L, y))
          /\ State_create_file(Cur, descendant(L, y)).errpath = descendant(L, y)

(***************************************************************************)
(* The calls that need an entry at their path, and those that make one.    *)
(***************************************************************************)
\* list_directory, create_file, remove_file, remove_empty_directory,
\* readlink and open_file in every mode.
OnPath(S, path) ==
    {State_list_directory(S, path), State_create_file(S, path),
     State_remove_file(S, path), State_remove_empty_directory(S, path),
     State_readlink(S, path)}
        \cup {State_open_file(S, path, m) : m \in ValidModes}

\* create_directory, and link from every source.
OnParent(S, path) ==
    {State_create_directory(S, path)}
        \cup {State_link(S, source, path) : source \in AnySources \cup AbsPaths}

\* Every call of `calls` failed with `err` naming `path`, and changed nothing.
AllFail(S, calls, err, path) ==
    \A r \in calls : r.err = err /\ r.errpath = path /\ r.S = S

(***************************************************************************)
(* C14: for an existing directory D, a name x absent from D and any name   *)
(* y, list_directory, create_file, remove_file, remove_empty_directory,    *)
(* readlink and open_file in every mode on D/x/y fail with FileNotFound    *)
(* naming D/x/y, create_directory and link on D/x/y fail with FileNotFound *)
(* naming D/x, and D/x is as absent afterwards as it was.                  *)
(***************************************************************************)
C14_ChildOfAbsentFails ==
    \A D \in AbsPaths, x \in Names :
        (/\ State_is_dir(Cur, D) = Bool(Cur, TRUE)
         /\ KindOf(Cur, State_getitem(Cur, descendant(D, x))) = "DirectoryChild") =>
            \A y \in Names :
                \A p \in {descendant(descendant(D, x), y)} :
                    /\ AllFail(Cur, OnPath(Cur, p), "FileNotFound", p)
                    /\ AllFail(Cur, OnParent(Cur, p), "FileNotFound", descendant(D, x))

\* A directory below the root that holds one entry and lacks another.
C14_Witness ==
    /\ \E D \in AbsPaths \ {Root}, x \in Names, y \in Names :
          /\ KindOf(Cur, State_getitem(Cur, D)) = "Directory"
          /\ DOMAIN nodes[State_getitem(Cur, D).id].children = Names \ {x}
          /\ State_link(Cur, Root, descendant(descendant(D, x), y)).errpath
                = descendant(D, x)
          /\ State_open_file(Cur, descendant(descendant(D, x), y), <<"w">>).errpath
                = descendant(descendant(D, x), y)

(***************************************************************************)
(* C15: for an existing regular file f and any names x and y,              *)
(* list_directory, create_file, remove_file, remove_empty_directory,       *)
(* readlink and open_file in every mode on f/x/y fail with NotADirectory   *)
(* naming f/x/y, create_directory and link on f/x/y fail with              *)
(* NotADirectory naming f/x, and link on f/x fails with NotADirectory      *)
(* naming f; the file is left as it was.                                   *)
(***************************************************************************)
C15_ChildOfFileFails ==
    \A f \in AbsPaths :
        State_is_file(Cur, f) = Bool(Cur, TRUE) =>
            \A x \in Names :
                /\ AllFail(Cur, {State_link(Cur, source, descendant(f, x))
                                   : source \in AnySources \cup AbsPaths},
                           "NotADirectory", f)
                /\ \A y \in Names :
                      \A p \in {descendant(descendant(f, x), y)} :
                          /\ AllFail(Cur, OnPath(Cur, p), "NotADirectory", p)
                          /\ AllFail(Cur, OnParent(Cur, p), "NotADirectory",
                                     descendant(f, x))

\* A written file in a directory below the root.
C15_Witness ==
    /\ \E f \in AbsPaths, x \in Names, y \in Names :
          /\ Len(f.segs) = MaxDepth
          /\ KindOf(Cur, State_getitem(Cur, f)) = "File"
          /\ ContentsAt(Cur, f) # <<>>
          /\ State_create_directory(Cur, descendant(descendant(f, x), y)).errpath
                = descendant(f, x)
          /\ State_readlink(Cur, descendant(descendant(f, x), y)).err = "NotADirectory"
          /\ State_link(Cur, Root, descendant(f, x)).errpath = f

(***************************************************************************)
(* C16 as claimed: where a is an existing regular file, create_file and    *)
(* create_directory of a/b/c both fail with NotADirectory naming a/b.  In  *)
(* the code create_file names a/b/c.                                       *)
(***************************************************************************)
RegularFile(S, path) == KindOf(S, State_getitem(S, path)) = "File"

C16_CreateBelowFileNamesChild ==
    \A a \in AbsPaths :
        RegularFile(Cur, a) =>
            \A b \in Names, c \in Names :
                \A r \in {State_create_file(Cur, descendant(descendant(a, b), c)),
                          State_create_directory(Cur, descendant(descendant(a, b), c))} :
                    r.err = "NotADirectory" /\ r.errpath = descendant(a, b)

(***************************************************************************)
(* C16 amended: where a is an existing regular file, create_directory of   *)
(* a/b/c fails with NotADirectory naming a/b, and create_file of a/b/c     *)
(* fails with NotADirectory naming a/b/c; neither changes anything.        *)
(***************************************************************************)
C16_CreateBelowFile ==
    \A a \in AbsPaths :
        RegularFile(Cur, a) =>
            \A b \in Names, c \in Names :
                \A abc \in {descendant(descendant(a, b), c)} :
                \A d \in {State_create_directory(Cur, abc)}, f \in {State_create_file(Cur, abc)} :
                    /\ d.err = "NotADirectory" /\ d.errpath = descendant(a, b) /\ d.S = Cur
                    /\ f.err = "NotADirectory" /\ f.errpath = abc /\ f.S = Cur

\* A file of the root directory, made by create_file, with a directory
\* beside it.
C16_Witness ==
    /\ \E a \in TopPaths, d \in TopPaths :
          /\ RegularFile(Cur, a)
          /\ KindOf(Cur, State_getitem(Cur, d)) = "Directory" /\ d # Root
          /\ \E b \in Names, c \in Names :
                /\ State_create_directory(Cur, descendant(descendant(a, b), c)).errpath
                      = descendant(a, b)
                /\ State_create_file(Cur, descendant(descendant(a, b), c)).errpath
                      = descendant(descendant(a, b), c)

(***************************************************************************)
(* C17 as claimed: for an existing regular file f and any name x, f/x      *)
(* resolves to a FileChild, and list_directory, remove_empty_directory,    *)
(* remove_file and readlink on f/x fail with FileNotFound, while           *)
(* create_directory, create_file, open_file and link on f/x fail with      *)
(* NotADirectory.  In the code all eight fail with NotADirectory.          *)
(***************************************************************************)
Finding(S, path) ==
    {State_list_directory(S, path), State_remove_empty_directory(S, path),
     State_remove_file(S, path), State_readlink(S, path)}

Making(S, path) ==
    {State_create_directory(S, path), State_create_file(S, path)}
        \cup {State_open_file(S, path, m) : m \in ValidModes}
        \cup {State_link(S, source, path) : source \in AnySources \cup AbsPaths}

C17_FileChildNotFound ==
    \A f \in AbsPaths :
        RegularFile(Cur, f) =>
            \A x \in Names :
                /\ KindOf(Cur, State_getitem(Cur, descendant(f, x))) = "FileChild"
                /\ \A r \in Finding(Cur, descendant(f, x)) : r.err = "FileNotFound"
                /\ \A r \in Making(Cur, descendant(f, x)) : r.err = "NotADirectory"

(***************************************************************************)
(* C17 amended: for an existing regular file f and any name x, f/x         *)
(* resolves to a FileChild, and list_directory, remove_empty_directory,    *)
(* remove_file and readlink on f/x fail with NotADirectory, as             *)
(* create_directory, create_file, open_file and link on f/x do; the file   *)
(* is left as it was.                                                      *)
(***************************************************************************)
C17_FileChildNotADirectory ==
    \A f \in AbsPaths :
        RegularFile(Cur, f) =>
            \A x \in Names :
                /\ State_getitem(Cur, descendant(f, x))
                      = FileChild(nodes[State_getitem(Cur, f).id].parent)
                /\ \A r \in Finding(Cur, descendant(f, x)) \cup Making(Cur, descendant(f, x)) :
                      r.err = "NotADirectory" /\ r.S = Cur

\* A written file, and beside it a link that leads to it.
C17_Witness ==
    /\ \E f \in AbsPaths, L \in AbsPaths, x \in Names :
          /\ RegularFile(Cur, f)
          /\ ContentsAt(Cur, f) # <<>>
          /\ LinkTo(Cur, L) /\ SourceOf(Cur, L) = f
          /\ State_remove_file(Cur, descendant(f, x)).err = "NotADirectory"
          /\ State_readlink(Cur, descendant(f, x)).err = "NotADirectory"
          /\ State_remove_file(Cur, descendant(L, x)).err = "NotADirectory"

(***************************************************************************)
(* C18: remove_empty_directory of p fails with DirectoryNotEmpty on a      *)
(* directory that has a child, with NotADirectory on a regular file and on *)
(* a link, whatever the link leads to, and with FileNotFound on a path     *)
(* where nothing is, each naming p and leaving everything in place; on an  *)
(* empty directory it succeeds, and is_dir of p is false afterwards.  On   *)
(* the root directory, when it is empty, the code raises KeyError.         *)
(***************************************************************************)
C18_RemovesOnlyEmptyDirectories ==
    \A p \in AbsPaths :
        \A node \in {State_getitem(Cur, p)}, r \in {State_remove_empty_directory(Cur, p)} :
            \A kind \in {KindOf(Cur, node)} :
                /\ (kind = "Directory" /\ DOMAIN nodes[node.id].children # {}) =>
                      r.err = "DirectoryNotEmpty" /\ r.errpath = p /\ r.S = Cur
                /\ kind \in {"File", "Link"} =>
                      r.err = "NotADirectory" /\ r.errpath = p /\ r.S = Cur
                /\ kind \in {"DirectoryChild", "NoSuchEntry"} =>
                      r.err = "FileNotFound" /\ r.errpath = p /\ r.S = Cur
                /\ (kind = "Directory" /\ DOMAIN nodes[node.id].children = {}) =>
                      r.err = "ok" /\ State_is_dir(r.S, p) = Bool(r.S, FALSE)

(***************************************************************************)
(* C19: remove_file of a path p that is a link succeeds and takes away the *)
(* entry of the link and nothing else: is_link and exists of p are false   *)
(* afterwards, and every other entry, the one at the link's source with    *)
(* its contents and its children (but for the link, where the link lies    *)
(* in the directory it leads to) included, is as it was, whether the       *)
(* source is a file, a directory with children, or absent.                 *)
(***************************************************************************)
C19_RemoveFileTakesOnlyTheLink ==
    \A p \in AbsPaths :
        \A node \in {State_getitem(Cur, p)} :
            KindOf(Cur, node) = "Link" =>
                \A r \in {State_remove_file(Cur, p)}, source \in {SourceOf(Cur, p)} :
                    /\ r.err = "ok"
                    /\ State_is_link(r.S, p) = Bool(r.S, FALSE)
                    /\ State_exists(r.S, p) = Bool(r.S, FALSE)
                    /\ Tree(r.S) = Tree(Cur) \ {<<node.id, Entry(Cur, node.id)>>}
                    /\ KindOf(Cur, State_getitem(Cur, source)) \in {"Directory", "File", "DirectoryChild"} =>
                          /\ State_getitem(r.S, source) = State_getitem(Cur, source)
                          /\ Stat(r.S, source) = <<Bool(r.S, Stat(Cur, source)[1].flag),
                                                   Bool(r.S, Stat(Cur, source)[2].flag),
                                                   Bool(r.S, Stat(Cur, source)[3].flag)>>
                          /\ State_list_directory(r.S, source).names
                                = State_list_directory(Cur, source).names
                                    \ (IF Stored(nodes[node.id].parent) = State_getitem(Cur, source)
                                       THEN {nodes[node.id].name} ELSE {})

\* A link to a directory below the root that holds an entry, which removing
\* the link leaves where it is.
C19_Witness ==
    /\ \E L \in AbsPaths, x \in Names :
          /\ LinkTo(Cur, L)
          /\ SourceOf(Cur, L) # Root
          /\ KindOf(Cur, State_getitem(Cur, SourceOf(Cur, L))) = "Directory"
          /\ State_list_directory(Cur, L).names = {x}
          /\ State_remove_file(Cur, L).err = "ok"
          /\ State_list_directory(State_remove_file(Cur, L).S, SourceOf(Cur, L)).names = {x}
          /\ State_list_directory(State_remove_file(Cur, L).S, L).err = "FileNotFound"

(***************************************************************************)
(* C20: wherever p resolves to an existing directory, file or link, a link *)
(* that leads nowhere included, create_file, create_directory and link to  *)
(* p from every source fail with FileExists naming p, and the entry (its   *)
(* kind, contents, target and children) and all else is left as it was.    *)
(***************************************************************************)
C20_CreationNeverOverwrites ==
    \A p \in AbsPaths :
        KindOf(Cur, State_getitem(Cur, p)) \in {"Directory", "File", "Link"} =>
            AllFail(Cur, {State_create_file(Cur, p), State_create_directory(Cur, p)}
                            \cup {State_link(Cur, source, p) : source \in AnySources \cup AbsPaths},
                    "FileExists", p)

\* A link that leads nowhere, in a directory below the root.
C20_Witness ==
    /\ \E L \in AbsPaths :
          /\ Len(L.segs) = MaxDepth
          /\ LinkTo(Cur, L)
          /\ KindOf(Cur, State_getitem(Cur, SourceOf(Cur, L))) = "DirectoryChild"
          /\ State_exists(Cur, L) = Bool(Cur, FALSE)
          /\ State_create_file(Cur, L).err = "FileExists"
          /\ State_create_directory(Cur, parent(L)).err = "FileExists"
          /\ State_link(Cur, SourceOf(Cur, L), L).errpath = L

(***************************************************************************)
(* C21: remove_file of p fails with PermissionError naming p where p is an *)
(* existing directory, empty or not, and leaves it and its children in     *)
(* place; it succeeds where p is an existing regular file, takes away that *)
(* entry only, and exists of p is false afterwards; it fails with          *)
(* FileNotFound naming p where nothing is at p.                            *)
(***************************************************************************)
C21_RemoveFileByKind ==
    \A p \in AbsPaths :
        \A node \in {State_getitem(Cur, p)}, r \in {State_remove_file(Cur, p)} :
            \A kind \in {KindOf(Cur, node)} :
                /\ kind = "Directory" =>
                      r.err = "PermissionError" /\ r.errpath = p /\ r.S = Cur
                /\ kind = "File" =>
                      /\ r.err = "ok"
                      /\ State_exists(r.S, p) = Bool(r.S, FALSE)
                      /\ Tree(r.S) = Tree(Cur) \ {<<node.id, Entry(Cur, node.id)>>}
                /\ kind \in {"DirectoryChild", "NoSuchEntry"} =>
                      r.err = "FileNotFound" /\ r.errpath = p /\ r.S = Cur

\* A directory below the root, empty again since the file in it was removed.
C21_Witness ==
    /\ last = "remove_file"
    /\ \E D \in AbsPaths \ {Root} :
          /\ KindOf(Cur, State_getitem(Cur, D)) = "Directory"
          /\ State_list_directory(Cur, D).names = {}
          /\ State_remove_file(Cur, D).err = "PermissionError"
          /\ \A x \in Names : State_remove_file(Cur, descendant(D, x)).err = "FileNotFound"
    /\ State_remove_file(Cur, Root).err = "PermissionError"

(***************************************************************************)
(* C22: readlink of p fails with NotASymlink naming p where p is an        *)
(* existing regular file or directory, and with FileNotFound naming p      *)
(* where p is absent in an existing directory; it succeeds exactly where   *)
(* is_link of p is true, and changes nothing.                              *)
(***************************************************************************)
C22_ReadlinkByKind ==
    \A p \in Deeper :
        \A r \in {State_readlink(Cur, p)}, kind \in {KindOf(Cur, State_getitem(Cur, p))} :
            /\ kind \in {"Directory", "File"} => r.err = "NotASymlink" /\ r.errpath = p
            /\ kind = "DirectoryChild" => r.err = "FileNotFound" /\ r.errpath = p
            /\ r.err = "ok" <=> State_is_link(Cur, p) = Bool(Cur, TRUE)
            /\ r.S = Cur

\* A link to a written file: readlink succeeds on the one and not on the
\* other, nor on the root directory.
C22_Witness ==
    /\ \E L \in AbsPaths :
          /\ LinkTo(Cur, L)
          /\ RegularFile(Cur, SourceOf(Cur, L))
          /\ ContentsAt(Cur, SourceOf(Cur, L)) # <<>>
          /\ State_readlink(Cur, L).err = "ok"
          /\ State_is_link(Cur, SourceOf(Cur, L)) = Bool(Cur, FALSE)
          /\ State_readlink(Cur, SourceOf(Cur, L)).err = "NotASymlink"
    /\ State_readlink(Cur, Root).err = "NotASymlink"

(***************************************************************************)
(* C23: open_file of p in a valid mode fails with IsADirectory naming p    *)
(* where p is an existing directory, whatever the mode.  Where p is absent *)
(* in an existing directory, a reading open fails with FileNotFound naming *)
(* p and makes nothing, and a writing or appending open makes an empty     *)
(* regular file at p, and nothing else, and returns a handle on its        *)
(* buffer, so that is_file of p is true.  Where the parent of p is         *)
(* missing every open fails with FileNotFound naming p and makes nothing.  *)
(***************************************************************************)
C23_OpenFileByKind ==
    \A p \in Deeper, m \in ValidModes :
        \A node \in {State_getitem(Cur, p)}, r \in {State_open_file(Cur, p, m)} :
            \A kind \in {KindOf(Cur, node)} :
                /\ kind = "Directory" =>
                      r.err = "IsADirectory" /\ r.errpath = p /\ r.S = Cur
                /\ (kind = "DirectoryChild" /\ parse_mode(m).activity = "r") =>
                      r.err = "FileNotFound" /\ r.errpath = p /\ r.S = Cur
                /\ (kind = "DirectoryChild" /\ parse_mode(m).activity # "r") =>
                      /\ r.err = "ok"
                      /\ RegularFile(r.S, p)
                      /\ State_is_file(r.S, p) = Bool(r.S, TRUE)
                      /\ ContentsAt(r.S, p) = <<>>
                      /\ Tree(r.S) = Tree(Cur) \cup
                            {<<Append(node.id, node.name),
                               [kind |-> "File", source |-> Root, contents |-> <<>>]>>}
                      /\ DOMAIN r.S.handles = DOMAIN handles \cup {r.handle}
                      /\ r.handle \notin DOMAIN handles
                      /\ r.S.handles[r.handle].buf
                            = r.S.nodes[State_getitem(r.S, p).id].contents
                /\ kind = "NoSuchEntry" =>
                      r.err = "FileNotFound" /\ r.errpath = p /\ r.S = Cur

\* An empty file in a directory below the root, as an open for writing or
\* appending that wrote nothing left it.
C23_Witness ==
    /\ last = "open_file"
    /\ \E p \in AbsPaths :
          /\ Len(p.segs) = MaxDepth
          /\ RegularFile(Cur, p)
          /\ ContentsAt(Cur, p) = <<>>
          /\ State_open_file(Cur, parent(p), <<"a">>).err = "IsADirectory"
          /\ \E x \in Names :
                /\ State_open_file(Cur, descendant(parent(p), x), <<"r">>).err = "FileNotFound"
                /\ State_open_file(Cur, descendant(parent(p), x), <<"a">>).err = "ok"

(***************************************************************************)
(* C24: open_file with a mode string that is not valid (an unknown letter, *)
(* binary together with text, read together with write, a letter too many) *)
(* fails with InvalidMode on every path, whatever the path resolves to,    *)
(* and changes nothing: no entry is made, emptied or written.              *)
(***************************************************************************)
InvalidModes ==
    {m \in ModeStrings : ~ValidMode(m)}
        \cup {<<"z">>, <<"r", "z">>, <<"r", "b", "z">>, <<"r", "b", "t">>, <<"r", "w", "b">>,
              <<"w", "w">>, <<"a", "+">>}

C24_InvalidModeBeforeTree ==
    \A p \in Deeper, m \in InvalidModes :
        \A r \in {State_open_file(Cur, p, m)} :
            r.err = "InvalidMode" /\ r.S = Cur

\* A written file, and beside it a name where nothing is: an open with a
\* mode that is not valid leaves the one written and the other absent.
C24_Witness ==
    /\ \E f \in AbsPaths, p \in AbsPaths :
          /\ RegularFile(Cur, f) /\ ContentsAt(Cur, f) # <<>>
          /\ KindOf(Cur, State_getitem(Cur, p)) = "DirectoryChild"
          /\ State_open_file(Cur, f, <<"r", "w">>).err = "InvalidMode"
          /\ State_open_file(Cur, p, <<"x">>).err = "InvalidMode"
          /\ State_open_file(Cur, p, <<"w">>).err = "ok"
          /\ State_open_file(Cur, f, <<"w">>).S # Cur

(***************************************************************************)
(* C25: list_directory of an existing directory d, named by the path it    *)
(* is stored at, gives the names made directly in d and not removed        *)
(* since.  Step by step: a call that makes                                 *)
(* an entry at d/x adds x and nothing else, a call that removes the entry  *)
(* at d/x takes x away and nothing else, a call that fails or only asks    *)
(* changes nothing, and no call on d/x/y changes what d lists (but an open  *)
(* of a link there, which acts on the source of the link); a directory     *)
(* just made lists nothing; a link to a directory lists what the directory *)
(* lists.                                                                  *)
(***************************************************************************)
Listed(S, path) == State_list_directory(S, path).names

WritingOps == {Op("open_file", Root, m) : m \in {<<"w">>, <<"a">>, <<"w", "b">>, <<"a", "b">>}}

C25_ListsDirectChildren ==
    /\ \A d \in AbsPaths :
          (State_getitem(Cur, d) = Stored(d.segs) /\ nodes[d.segs].kind = "Directory") =>
              \A old \in {Listed(Cur, d)}, x \in Names :
                  \A kind \in {KindOf(Cur, State_getitem(Cur, descendant(d, x)))} :
                      /\ State_list_directory(Cur, d).err = "ok"
                      /\ x \in old <=> kind \in {"Directory", "File", "Link"}
                      /\ \A c \in Ops : \A r \in {Do(Cur, c, descendant(d, x))} :
                            /\ (kind = "DirectoryChild" /\ c \in CreatingOps \cup WritingOps) =>
                                  r.err = "ok" /\ Listed(r.S, d) = old \cup {x}
                            /\ (kind # "Link" /\ c \in RemovingOps /\ r.err = "ok") =>
                                  Listed(r.S, d) = old \ {x}
                            /\ (kind = "Link" /\ c.op = "remove_file") =>
                                  r.err = "ok" /\ Listed(r.S, d) = old \ {x}
                            /\ (r.err # "ok" \/ c \in AskingOps) => Listed(r.S, d) = old
                            /\ (r.err = "ok" /\ c.op = "create_directory") =>
                                  Listed(r.S, descendant(d, x)) = {}
                      /\ kind = "Directory" =>
                            \A y \in Names, c \in Ops :
                                \/ c \in OpeningOps
                                     /\ KindOf(Cur, State_getitem(Cur,
                                            descendant(descendant(d, x), y))) = "Link"
                                \/ Listed(Do(Cur, c, descendant(descendant(d, x), y)).S, d)
                                     = old
    /\ \A L \in AbsPaths :
          (LinkTo(Cur, L) /\ KindOf(Cur, State_getitem(Cur, SourceOf(Cur, L))) = "Directory") =>
              /\ State_list_directory(Cur, L).err = "ok"
              /\ Listed(Cur, L) = Listed(Cur, SourceOf(Cur, L))

\* A directory that lists nothing since its one entry was removed, beside a
\* link to the root directory, which lists the two of them.
C25_Witness ==
    /\ last \in {"remove_file", "remove_empty_directory"}
    /\ \E L \in TopPaths, D \in TopPaths :
          /\ LinkTo(Cur, L) /\ SourceOf(Cur, L) = Root
          /\ KindOf(Cur, State_getitem(Cur, D)) = "Directory" /\ D # Root
          /\ Listed(Cur, D) = {}
          /\ Listed(Cur, L) = {L.segs[1], D.segs[1]}
          /\ Listed(Cur, Root) = Listed(Cur, L)

(***************************************************************************)
(* C26: temporary_directory, with uuid4 giving a name that no entry of the *)
(* root directory has, succeeds in every reachable state, makes one        *)
(* directory under that name in the root directory and returns its path    *)
(* p; is_dir of p is true, list_directory of p is empty, and every entry   *)
(* there was is as it was.                                                 *)
(***************************************************************************)
AllNames == {NameSeq[i] : i \in DOMAIN NameSeq}

C26_TemporaryDirectoryIsNewAndEmpty ==
    \A hex \in AllNames \ DOMAIN nodes[rootId].children :
        \A r \in {State_temporary_directory(Cur, hex)} :
            /\ r.err = "ok"
            /\ r.target = Path(<<hex>>)
            /\ State_is_dir(r.S, r.target) = Bool(r.S, TRUE)
            /\ State_list_directory(r.S, r.target).err = "ok"
            /\ Listed(r.S, r.target) = {}
            /\ Tree(r.S) = Tree(Cur) \cup
                  {<<<<hex>>, [kind |-> "Directory", source |-> Root, contents |-> <<>>]>>}
            /\ <<hex>> \notin {e[1] : e \in Tree(Cur)}
            /\ r.S.bufs = bufs /\ r.S.handles = handles

\* A temporary directory beside a written file.
C26_Witness ==
    /\ last = "temporary_directory"
    /\ \E p \in TopPaths, f \in TopPaths :
          /\ State_is_dir(Cur, p) = Bool(Cur, TRUE) /\ p # Root
          /\ Listed(Cur, p) = {}
          /\ RegularFile(Cur, f) /\ ContentsAt(Cur, f) # <<>>
          /\ State_temporary_directory(Cur, NameSeq[Len(NameSeq)]).err = "ok"

(***************************************************************************)
(* C27: for every path that resolves to no stored entry, being absent in   *)
(* an existing directory, below a regular file or below a missing          *)
(* ancestor, at any depth, exists, is_dir, is_file and is_link return      *)
(* false, raise nothing and change nothing.                                *)
(***************************************************************************)
NoEntry == {"DirectoryChild", "FileChild", "NoSuchEntry"}

Deepest == Deeper \cup {descendant(p, x) : p \in Deeper, x \in Names}

C27_NoEntryIsNothing ==
    \A p \in Deepest :
        KindOf(Cur, State_getitem(Cur, p)) \in NoEntry =>
            /\ \A i \in DOMAIN Stat(Cur, p) : Stat(Cur, p)[i] = Bool(Cur, FALSE)
            /\ State_is_link(Cur, p) = Bool(Cur, FALSE)

\* A written file in a directory below the root: there are paths below the
\* file, paths absent in the directory and paths below those.
C27_Witness ==
    /\ \E f \in AbsPaths, x \in Names, y \in Names :
          /\ Len(f.segs) = MaxDepth
          /\ RegularFile(Cur, f) /\ ContentsAt(Cur, f) # <<>>
          /\ KindOf(Cur, State_getitem(Cur, descendant(f, x))) = "FileChild"
          /\ KindOf(Cur, State_getitem(Cur, descendant(parent(f), y))) = "DirectoryChild"
          /\ KindOf(Cur, State_getitem(Cur, descendant(descendant(parent(f), y), x)))
                = "NoSuchEntry"
          /\ State_exists(Cur, descendant(f, x)) = Bool(Cur, FALSE)
          /\ State_is_link(Cur, descendant(descendant(parent(f), y), x)) = Bool(Cur, FALSE)

(***************************************************************************)
(* C28: a handle opened for reading is a snapshot.  Opening an existing    *)
(* file for reading gives a view that holds the contents as of the open    *)
(* and leaves the stored contents as they were, and so does reading; no    *)
(* write, truncation, append, close or removal made through another handle *)
(* or through the file system afterwards changes what the handle returns.  *)
(***************************************************************************)
ReadModes == {<<"r">>, <<"r", "b">>}
Held(S, h) == S.bufs[S.handles[h].buf]
Returned(S, h) == Outcome([Handle_read(S, h) EXCEPT !.S = Cur])

\* What can happen to the file while a handle is held: calls on the file
\* system, and calls on another handle g.
Meanwhile(S) ==
    {State_open_file(S, p, m) : p \in FilePaths, m \in FileModes}
    \cup {Opened(S, p, m, d) : p \in FilePaths, m \in FileModes, d \in {<<>>, <<10>>}}
    \cup {State_create_file(S, p) : p \in FilePaths}
    \cup {State_remove_file(S, p) : p \in FilePaths}

MeanwhileOn(S, g) ==
    {Handle_write(S, g, <<10>>), Handle_read(S, g), Handle_close(S, g)}

Readers(S) == {h \in DOMAIN S.handles : S.handles[h].activity = "r"}

\* Call r has left what the handles in hs hold and return as it was.
Untouched(r, hs) ==
    \A h \in hs :
        /\ h \in DOMAIN r.S.handles
        /\ Held(r.S, h) = Held(Cur, h)
        /\ Returned(r.S, h) = Returned(Cur, h)

C28_ReadHandleIsSnapshot ==
    /\ \A p \in FilePaths, m \in ReadModes :
          RegularFile(Cur, p) =>
              \A r \in {State_open_file(Cur, p, m)} :
                  /\ r.err = "ok"
                  /\ Held(r.S, r.handle).value = ContentsAt(Cur, p)
                  /\ Held(r.S, r.handle).pos = 0
                  /\ Tree(r.S) = Tree(Cur)
                  /\ \A got \in {Handle_read(r.S, r.handle)} :
                        /\ ~parse_mode(m).text =>
                              got.err = "ok" /\ got.data = ContentsAt(Cur, p)
                        /\ Tree(got.S) = Tree(Cur)
    /\ \A h \in Readers(Cur) :
          \A got \in {Handle_read(Cur, h)} : Tree(got.S) = Tree(Cur)
    /\ \A r \in Meanwhile(Cur) : Untouched(r, Readers(Cur))
    /\ \A g \in DOMAIN handles :
          \A r \in MeanwhileOn(Cur, g) : Untouched(r, Readers(Cur) \ {g})

\* A handle opened for reading, not yet read, holds a byte, and the file has
\* been emptied since; another handle is held for writing.
C28_Witness ==
    \E h \in DOMAIN handles, g \in DOMAIN handles, p \in FilePaths :
        /\ handles[h].activity = "r" /\ handles[g].activity # "r"
        /\ Held(Cur, h).value # <<>> /\ Held(Cur, h).pos = 0
        /\ RegularFile(Cur, p) /\ ContentsAt(Cur, p) = <<>>
        /\ Handle_read(Handle_write(Cur, g, <<10>>).S, h).data = Held(Cur, h).value

(***************************************************************************)
(* C29: opening an existing file for writing empties it at the open,       *)
(* whether or not anything is written, and what is written through the     *)
(* handle is part of the file's contents at once: the file holds it, and a *)
(* handle opened for reading returns it, before the writing handle is      *)
(* closed.                                                                 *)
(***************************************************************************)
WriteModes == {<<"w">>, <<"w", "b">>}

\* The bytes a new handle opened for reading on path p returns.
ReadNow(S, p) == Given(State_open_file(S, p, <<"r", "b">>),
                       LAMBDA r : Handle_read(r.S, r.handle).data)

\* The file at p holds exactly `bytes`, for the tree and for a new reader.
Holds(S, p, bytes) ==
    \A now \in {S} : ContentsAt(now, p) = bytes /\ ReadNow(now, p) = bytes

EmptiedAtOpen(p, m) ==
    \A r \in {State_open_file(Cur, p, m)} :
        /\ r.err = "ok"
        /\ Holds(r.S, p, <<>>)
        /\ Holds(Handle_close(r.S, r.handle).S, p, <<>>)

LiveWrites(p, m) ==
    \A r \in {State_open_file(Cur, p, m)} :
        \A once \in {Handle_write(r.S, r.handle, <<10>>)} :
            \A twice \in {Handle_write(once.S, r.handle, <<10>>)} :
                /\ once.err = "ok" /\ twice.err = "ok"
                /\ Holds(once.S, p, <<10>>)
                /\ Holds(twice.S, p, <<10, 10>>)

WritesAtClose(p, m) ==
    \A r \in {State_open_file(Cur, p, m)} :
        \A once \in {Handle_write(r.S, r.handle, <<10>>)} :
            \A twice \in {Handle_write(once.S, r.handle, <<10>>)} :
                /\ once.err = "ok" /\ twice.err = "ok"
                /\ Holds(Handle_close(once.S, r.handle).S, p, <<10>>)
                /\ Holds(Handle_close(twice.S, r.handle).S, p, <<10, 10>>)

\* The statement as it stands: writes through any handle are live.
C29_WritesAreLive ==
    \A p \in FilePaths, m \in WriteModes :
        RegularFile(Cur, p) => EmptiedAtOpen(p, m) /\ LiveWrites(p, m)

\* C29, amended: the open empties the file; bytes written through a binary
\* handle are part of the contents at once, and text written through a text
\* handle is part of them once the handle is closed.
C29_BinaryWritesAreLive ==
    \A p \in FilePaths, m \in WriteModes :
        RegularFile(Cur, p) =>
            /\ EmptiedAtOpen(p, m)
            /\ ~parse_mode(m).text => LiveWrites(p, m)
            /\ WritesAtClose(p, m)

\* The file held a byte, which a handle opened for reading before still
\* holds, and was opened for writing, as text: it is empty.  A letter written
\* now is held back until the handle is closed.
C29_Witness ==
    \E h \in DOMAIN handles, p \in FilePaths :
        /\ last = "open_file"
        /\ handles[h].activity = "w" /\ handles[h].text
        /\ RegularFile(Cur, p)
        /\ nodes[State_getitem(Cur, p).id].contents = handles[h].buf
        /\ ContentsAt(Cur, p) = <<>>
        /\ \E g \in DOMAIN handles : handles[g].activity = "r" /\ Held(Cur, g).value # <<>>
        /\ \A w \in {Handle_write(Cur, h, <<10>>)} :
              /\ h \in DOMAIN w.S.handles
              /\ Holds(w.S, p, <<>>)
              /\ Holds(Handle_close(w.S, h).S, p, <<10>>)

(***************************************************************************)
(* C30: resolution is total.  In every tree, with dangling links and link  *)
(* cycles too, walking any path from the root ends without an error in one *)
(* of Directory, File, Link, DirectoryChild, FileChild or NoSuchEntry.     *)
(* The code walks a path below a member of a link cycle by looking the     *)
(* link's source up again and again, until the interpreter stops it.       *)
(***************************************************************************)
Variants == {"Directory", "File", "Link", "DirectoryChild", "FileChild", "NoSuchEntry"}

C30_ResolutionIsTotal ==
    \A p \in Deepest : KindOf(Cur, State_getitem(Cur, p)) \in Variants

(***************************************************************************)
(* C31: whatever the calls made, the value a directory holds under a name  *)
(* is a Directory, File or Link node, never one of the three phantoms, and *)
(* a Link holds the path of its target and nothing of the target itself:   *)
(* no children and no contents.                                            *)
(***************************************************************************)
OwnedKinds == {"Directory", "File", "Link"}

OnlyOwnedNodes(S) ==
    \A id \in DOMAIN S.nodes :
        /\ S.nodes[id].kind \in OwnedKinds
        /\ \A k \in DOMAIN S.nodes[id].children :
              /\ S.nodes[id].children[k] \in DOMAIN S.nodes
              /\ S.nodes[S.nodes[id].children[k]].kind \in OwnedKinds
        /\ S.nodes[id].kind # "Directory" => S.nodes[id].children = NoChildren
        /\ S.nodes[id].kind = "File" <=> S.nodes[id].contents \in DOMAIN S.bufs
        /\ S.nodes[id].kind = "Link" =>
              S.nodes[id].source \in AbsPaths \cup RelPaths

C31_OnlyOwnedNodesStored ==
    /\ OnlyOwnedNodes(Cur)
    /\ \A source \in AnySources, to \in AbsPaths :
          \A r \in {State_link(Cur, source, to)} :
              /\ OnlyOwnedNodes(r.S)
              /\ r.err = "ok" =>
                    \A made \in {State_getitem(r.S, to)} :
                        /\ made.v = "Stored"
                        /\ r.S.nodes[made.id]
                             = Link(to.segs[Len(to.segs)],
                                    State_getitem(Cur, to).id, source)
                        /\ r.S.bufs = bufs

\* A link to a directory that holds a written file: the link holds the
\* directory's path and neither the directory nor the file.
C31_Witness ==
    \E l \in AbsPaths, f \in AbsPaths :
        /\ last = "link"
        /\ LinkTo(Cur, l)
        /\ KindOf(Cur, State_getitem(Cur, SourceOf(Cur, l))) = "Directory"
        /\ parent(f) = SourceOf(Cur, l)
        /\ RegularFile(Cur, f) /\ ContentsAt(Cur, f) # <<>>
        /\ nodes[State_getitem(Cur, l).id].children = NoChildren
        /\ Listed(Cur, l) = {f.segs[Len(f.segs)]}

(***************************************************************************)
(* C32: a reference to a Directory node taken before one of the            *)
(* directory's direct children is created or removed goes on showing the   *)
(* children of before, and only a reference fetched anew shows the new     *)
(* ones.  In the code the mapping is a persistent value, but the           *)
(* _Directory object is not: __setitem__ and __delitem__ rebind _children  *)
(* on the object itself, which is the object every reference leads to.     *)
(***************************************************************************)
\* The calls that make or remove the entry at a path.
MakingOps == CreatingOps \cup WritingOps

\* The direct children seen through a reference to the Directory node id.
Seen(S, id) == Directory_list_directory(S, id, Root).names

\* Call c on d/x makes or removes a direct child of the directory at d.
ChangesChild(c, d, x) ==
    /\ KindOf(Cur, State_getitem(Cur, d)) = "Directory"
    /\ \/ c \in MakingOps
          /\ KindOf(Cur, State_getitem(Cur, descendant(d, x))) = "DirectoryChild"
       \/ c \in RemovingOps
          /\ KindOf(Cur, State_getitem(Cur, descendant(d, x))) \in OwnedKinds
    /\ Do(Cur, c, descendant(d, x)).err = "ok"

LaterModes == {<<"w">>, <<"w", "b">>, <<"a">>, <<"a", "b">>}
Writers(S) == {h \in DOMAIN S.handles : S.handles[h].activity # "r"}

\* Handle h is a view of the buffer the file at p has as its contents.
Attached(S, h, p) == S.handles[h].buf = S.nodes[State_getitem(S, p).id].contents

\* What handle h has: its buffer and what it holds back.
Has(S, h) == <<Held(S, h), S.handles[h].pending>>

Overlap(p, h, m) ==
    \A r \in {State_open_file(Cur, p, m)} :
        /\ r.err = "ok" /\ r.handle # h /\ h \in DOMAIN r.S.handles
        /\ Attached(r.S, r.handle, p) /\ ~Attached(r.S, h, p)
        /\ Has(r.S, h) = Has(Cur, h)
        /\ \A base \in {ContentsAt(r.S, p)} :
              /\ base = (IF parse_mode(m).activity = "w" THEN <<>> ELSE ContentsAt(Cur, p))
              /\ \A early \in {Handle_write(r.S, h, <<10>>).S} :
                    /\ Holds(early, p, base)
                    /\ Holds(Handle_close(early, h).S, p, base)
                    /\ \A both \in {Handle_write(early, r.handle, <<10>>).S} :
                          /\ Has(both, h) = Has(early, h)
                          /\ \A done \in {Handle_close(both, h).S} :
                                Holds(Handle_close(done, r.handle).S, p, base \o <<10>>)
              /\ \A late \in {Handle_write(r.S, r.handle, <<10>>).S} :
                    /\ Has(late, h) = Has(Cur, h)
                    /\ Has(Handle_close(late, r.handle).S, h) = Has(Cur, h)
                    /\ Holds(Handle_close(late, r.handle).S, p, base \o <<10>>)

\* Handle h lost the file at p to a later writer: writing through it and
\* closing it leave the file as it is.
Detached(p, h) ==
    \A base \in {ContentsAt(Cur, p)}, early \in {Handle_write(Cur, h, <<10>>).S} :
        /\ Holds(early, p, base)
        /\ Holds(Handle_close(early, h).S, p, base)
        /\ Holds(Handle_close(Cur, h).S, p, base)

C33_LaterWriterTakesTheFile ==
    \A p \in FilePaths, h \in Writers(Cur) :
        RegularFile(Cur, p) =>
            IF Attached(Cur, h, p) THEN \A m \in LaterModes : Overlap(p, h, m)
            ELSE Detached(p, h)

\* Two writers are held on one file; the earlier one has written since the
\* later one opened the file, and the file is empty.
C33_Witness ==
    \E p \in FilePaths, h \in Writers(Cur), g \in Writers(Cur) :
        /\ last = "write"
        /\ RegularFile(Cur, p)
        /\ Attached(Cur, g, p) /\ ~Attached(Cur, h, p)
        /\ Held(Cur, h).value # <<>>
        /\ ContentsAt(Cur, p) = <<>>
        /\ Overlap(p, g, <<"a", "b">>)

(***************************************************************************)
(* C34: a call changes at most one stored entry.  A create_directory,      *)
(* create_file or link that succeeds, and an open for writing or appending *)
(* of an absent path, add one entry to one directory; a remove_file or     *)
(* remove_empty_directory that succeeds takes one entry from one           *)
(* directory; an open for writing or appending of an existing file changes *)
(* the contents of that file; the calls that ask, and an open for reading, *)
(* change nothing.  Every other entry keeps its kind, target, contents and *)
(* children.                                                               *)
(***************************************************************************)
Paths(tree) == {e[1] : e \in tree}

\* The directories whose child mapping is not what it was.
Remapped(S, T) ==
    {id \in DOMAIN S.nodes \cap DOMAIN T.nodes :
        DOMAIN S.nodes[id].children # DOMAIN T.nodes[id].children}

AddsOne(S, T) ==
    /\ Tree(S) \subseteq Tree(T)
    /\ Cardinality(Tree(T) \ Tree(S)) = 1
    /\ Cardinality(Paths(Tree(T)) \ Paths(Tree(S))) = 1
    /\ Cardinality(Remapped(S, T)) = 1

TakesOne(S, T) == AddsOne(T, S)

\* At most the contents of the file at stored path segs differ.
RewritesOnly(S, T, segs) ==
    /\ Paths(Tree(T)) = Paths(Tree(S))
    /\ Remapped(S, T) = {}
    /\ \A e \in Tree(S) \ Tree(T) : e[1] = segs /\ e[2].kind = "File"
    /\ \A e \in Tree(T) \ Tree(S) : e[1] = segs /\ e[2].kind = "File"

ChangesNothing(S, T) == T = S

C34_AtMostOneEntryChanges ==
    \A p \in AbsPaths, c \in Ops :
        \A r \in {Do(Cur, c, p)}, was \in {State_getitem(Cur, p)} :
            r.err = "ok" =>
                CASE c \in CreatingOps -> AddsOne(Cur, r.S)
                  [] c \in RemovingOps -> TakesOne(Cur, r.S)
                  [] c \in WritingOps ->
                        /\ KindOf(Cur, was) = "DirectoryChild" => AddsOne(Cur, r.S)
                        /\ KindOf(Cur, was) = "File" => RewritesOnly(Cur, r.S, was.id)
                        /\ \/ AddsOne(Cur, r.S)
                           \/ \E f \in DOMAIN nodes : RewritesOnly(Cur, r.S, f)
                  [] OTHER -> ChangesNothing(Cur, r.S)

\* Two entries side by side, one of them a written file, and a place for a
\* third: each of them can be removed or rewritten on its own.
C34_Witness ==
    \E f \in AbsPaths, g \in AbsPaths, x \in Names :
        /\ f # g /\ parent(f) = parent(g)
        /\ RegularFile(Cur, f) /\ ContentsAt(Cur, f) # <<>>
        /\ KindOf(Cur, State_getitem(Cur, g)) \in OwnedKinds
        /\ State_remove_file(Cur, f).err = "ok"
        /\ TakesOne(Cur, State_remove_file(Cur, f).S)
        /\ Opened(Cur, f, <<"w">>, <<>>).err = "ok"
        /\ Tree(Opened(Cur, f, <<"w">>, <<>>).S) # Tree(Cur)
        /\ last \in {"create_directory", "create_file", "link", "open_file"}

(***************************************************************************)
(* C35: making and removing undo each other.  From every state, for every  *)
(* path p absent in an existing directory, create_directory(p) and then    *)
(* remove_empty_directory(p), create_file(p) and then remove_file(p), and  *)
(* link(source, p) and then remove_file(p) leave the tree as it was before *)
(* the pair, and p can then be made again as any kind, a file with empty   *)
(* contents.                                                               *)
(***************************************************************************)
Absent(S, p) == KindOf(S, State_getitem(S, p)) = "DirectoryChild"

\* In state S, p can be made as a directory, a file and a link.
CanBeMade(S, p) ==
    /\ Absent(S, p)
    /\ \A r \in {State_create_directory(S, p)} :
          r.err = "ok" /\ KindOf(r.S, State_getitem(r.S, p)) = "Directory"
                      /\ Listed(r.S, p) = {}
    /\ \A r \in {State_create_file(S, p)} :
          r.err = "ok" /\ RegularFile(r.S, p) /\ ContentsAt(r.S, p) = <<>>
    /\ \A source \in AnySources :
          \A r \in {State_link(S, source, p)} :
              r.err = "ok" /\ State_readlink(r.S, p).target = source

\* Call `undo` follows a call that made p, with result `made`.
Undone(made, undo, p) ==
    /\ made.err = "ok" /\ undo.err = "ok"
    /\ Tree(made.S) # Tree(Cur)
    /\ Tree(undo.S) = Tree(Cur)
    /\ undo.S.nodes = nodes
    /\ CanBeMade(undo.S, p)

C35_MakeAndRemoveUndoEachOther ==
    \A p \in AbsPaths :
        Absent(Cur, p) =>
            /\ \A made \in {State_create_directory(Cur, p)} :
                  \A undo \in {State_remove_empty_directory(made.S, p)} :
                      Undone(made, undo, p) /\ undo.S = Cur
            /\ \A made \in {State_create_file(Cur, p)} :
                  Undone(made, State_remove_file(made.S, p), p)
            /\ \A made \in {Created(Cur, p, <<10>>)} :
                  \A undo \in {State_remove_file(made.S, p)} :
                      Undone(made, undo, p) /\ undo.S = Cur
            /\ \A source \in AnySources :
                  \A made \in {State_link(Cur, source, p)} :
                      \A undo \in {State_remove_file(made.S, p)} :
                          Undone(made, undo, p) /\ undo.S = Cur

\* A path has just been freed by a removal; it lies in a directory below the
\* root and can be made again, and removed again.
C35_Witness ==
    \E p \in AbsPaths :
        /\ last \in {"remove_file", "remove_empty_directory"}
        /\ Len(p.segs) = MaxDepth
        /\ Absent(Cur, p) /\ CanBeMade(Cur, p)
        /\ Listed(Cur, parent(p)) = {}
        /\ State_remove_file(Created(Cur, p, <<10>>).S, p).S = Cur

(***************************************************************************)
(* C36: the four questions agree.  In every state without a link cycle,    *)
(* for every path p: exists(p) holds exactly when one of is_dir(p) and     *)
(* is_file(p) holds, and they never hold both.  is_link(p) may hold where  *)
(* exists(p) does not: a link whose source is not there.                   *)
(***************************************************************************)
Links(S) == {id \in DOMAIN S.nodes : S.nodes[id].kind = "Link"}

\* What the walk along the source of link id comes by, segment by segment.
AlongSource(S, id) ==
    {State_getitem(S, Path(SubSeq(S.nodes[id].source.segs, 1, k)))
        : k \in 1..Len(S.nodes[id].source.segs)}

\* The links that following link id leads through.
LeadsTo(S, id) == {e.id : e \in {t \in AlongSource(S, id) : KindOf(S, t) = "Link"}}

RECURSIVE LeadsOn(_, _, _)
LeadsOn(S, ids, n) ==
    IF n = 0 THEN ids
    ELSE LeadsOn(S, ids \cup UNION {LeadsTo(S, i) : i \in ids}, n - 1)

\* Following link id comes back to link id.
Cyclic(S, id) ==
    \/ Unbounded \in AlongSource(S, id)
    \/ id \in LeadsOn(S, LeadsTo(S, id), Cardinality(Links(S)))

NoLinkCycle(S) == \A id \in Links(S) : ~Cyclic(S, id)

C36_StatIsConsistent ==
    NoLinkCycle(Cur) =>
        \A p \in Deepest :
            \A e \in {State_exists(Cur, p)}, d \in {State_is_dir(Cur, p)},
               f \in {State_is_file(Cur, p)}, l \in {State_is_link(Cur, p)} :
                /\ e.err = "ok" /\ d.err = "ok" /\ f.err = "ok" /\ l.err = "ok"
                /\ e.flag <=> (d.flag # f.flag)
                /\ ~(d.flag /\ f.flag)
                /\ l.flag <=> KindOf(Cur, State_getitem(Cur, p)) = "Link"

\* No link cycle, a written file, and a link that leads nowhere: it is a
\* link and is not there.
C36_Witness ==
    /\ NoLinkCycle(Cur)
    /\ \E p \in AbsPaths, q \in AbsPaths :
          /\ State_is_link(Cur, p).flag /\ ~State_exists(Cur, p).flag
          /\ ~State_is_dir(Cur, p).flag /\ ~State_is_file(Cur, p).flag
          /\ RegularFile(Cur, q) /\ ContentsAt(Cur, q) # <<>>
          /\ State_exists(Cur, q).flag /\ State_is_file(Cur, q).flag
          /\ ~State_is_dir(Cur, q).flag /\ ~State_is_link(Cur, q).flag

(***************************************************************************)
(* C37: names and parents are kept right.  Whatever the calls made, the    *)
(* node a directory holds under key k has the name k and that directory as *)
(* its parent, so that a remove_file or remove_empty_directory that        *)
(* succeeds on path p takes away the very entry p resolves to, and no      *)
(* other, also where p goes through links on its way.                      *)
(***************************************************************************)
Bookkeeping(S) ==
    /\ S.nodes[rootId].parent = rootId /\ S.nodes[rootId].name = ""
    /\ \A id \in DOMAIN S.nodes :
          \A k \in DOMAIN S.nodes[id].children :
              /\ S.nodes[S.nodes[id].children[k]].name = k
              /\ S.nodes[S.nodes[id].children[k]].parent = id
    /\ \A id \in DOMAIN S.nodes \ {rootId} :
          /\ S.nodes[id].parent \in DOMAIN S.nodes
          /\ S.nodes[id].name \in DOMAIN S.nodes[S.nodes[id].parent].children
          /\ S.nodes[S.nodes[id].parent].children[S.nodes[id].name] = id

\* Path p goes through a link before its last segment.
ThroughLink(S, p) ==
    \E k \in 1..(Len(p.segs) - 1) :
        KindOf(S, State_getitem(S, Path(SubSeq(p.segs, 1, k)))) = "Link"

RemovesWhatItNames(p, c) ==
    \A was \in {State_getitem(Cur, p)}, r \in {Do(Cur, c, p)} :
        r.err = "ok" =>
            /\ was.v = "Stored" /\ was.id # rootId
            /\ was.id \notin DOMAIN r.S.nodes
            /\ DOMAIN nodes \ DOMAIN r.S.nodes = {was.id}
            /\ Tree(r.S) = {e \in Tree(Cur) : e[1] # was.id}
            /\ Bookkeeping(r.S)

C37_BookkeepingIsConsistent ==
    /\ Bookkeeping(Cur)
    /\ \A p \in Deeper, c \in RemovingOps : RemovesWhatItNames(p, c)

\* A link leads to a directory with an entry, and the entry can be removed
\* by the path through the link.
C37_Witness ==
    \E p \in Deeper, c \in RemovingOps :
        /\ ThroughLink(Cur, p)
        /\ State_getitem(Cur, p).v = "Stored"
        /\ State_getitem(Cur, p).id # p.segs
        /\ Len(State_getitem(Cur, p).id) = MaxDepth
        /\ Do(Cur, c, p).err = "ok"
        /\ RemovesWhatItNames(p, c)

(***************************************************************************)
(* C38: link cycles can be made and taken apart.  link(source=p, to=p)     *)
(* succeeds on a path p absent in an existing directory.  Of a link on a   *)
(* cycle, is_link is true, readlink gives the stored target and            *)
(* remove_file removes the link, none of them following it.  Removing a    *)
(* member of a cycle ends that cycle and makes no other, so that after one *)
(* removal for every cycle the tree has none.                              *)
(***************************************************************************)
\* Link id is on a cycle: following it leads back to it.
Member(S, id) == id \in LeadsOn(S, LeadsTo(S, id), Cardinality(Links(S)))
Members(S) == {id \in Links(S) : Member(S, id)}

\* The links on the cycle of member id.
CycleOf(S, id) ==
    {m \in LeadsOn(S, {id}, Cardinality(Links(S))) :
        id \in LeadsOn(S, {m}, Cardinality(Links(S)))}

SelfLinkSucceeds(p) ==
    \A r \in {State_link(Cur, p, p)} :
        /\ r.err = "ok"
        /\ State_getitem(r.S, p).v = "Stored"
        /\ Member(r.S, State_getitem(r.S, p).id)
        /\ State_readlink(r.S, p).target = p

HandledAsEntry(S, id) ==
    /\ State_getitem(S, Path(id)) = Stored(id)
    /\ State_is_link(S, Path(id)) = Bool(S, TRUE)
    /\ State_readlink(S, Path(id)) = [Ok(S) EXCEPT !.target = S.nodes[id].source]
    /\ \A r \in {State_remove_file(S, Path(id))} :
          /\ r.err = "ok"
          /\ Tree(r.S) = {e \in Tree(S) : e[1] # id}
          /\ Members(r.S) \subseteq Members(S) \ CycleOf(S, id)
          /\ {l \in Links(r.S) : Cyclic(r.S, l)} \subseteq {l \in Links(S) : Cyclic(S, l)}

RECURSIVE TakenApart(_, _)
\* Whichever member of a cycle is removed, and so on, no cycle is left after
\* at most n removals.
TakenApart(S, n) ==
    IF Members(S) = {} THEN NoLinkCycle(S)
    ELSE /\ n > 0
         /\ \A id \in Members(S) :
               /\ HandledAsEntry(S, id)
               /\ TakenApart(State_remove_file(S, Path(id)).S, n - 1)

\* The cycles of S, each as the set of its members.
Cycles(S) == {CycleOf(S, id) : id \in Members(S)}

C38_CyclesAreMadeAndTakenApart ==
    /\ \A p \in AbsPaths : Absent(Cur, p) => SelfLinkSucceeds(p)
    /\ TakenApart(Cur, Cardinality(Cycles(Cur)))

\* Two cycles: a link to itself, and two links to each other.
C38_Witness ==
    /\ last = "link"
    /\ Cardinality(Cycles(Cur)) = 2
    /\ Cardinality(Members(Cur)) = 3
    /\ \A id \in Members(Cur) : HandledAsEntry(Cur, id)
    /\ ~NoLinkCycle(Cur)

(***************************************************************************)
(* C39: exists, is_dir, is_file and list_directory end on a link that is   *)
(* on a cycle and on every path below one: the three questions are         *)
(* answered false, and list_directory fails with an error of the taxonomy. *)
(* The code follows the links round and round, until the interpreter stops *)
(* it.                                                                     *)
(***************************************************************************)
\* The path of a link on a cycle, and the paths below it.
AtOrBelow(id) == {Path(id)} \cup {descendant(Path(id), x) : x \in Names}

C39_CycleQuestionsEnd ==
    \A id \in Members(Cur) : \A p \in AtOrBelow(id) :
        /\ State_exists(Cur, p) = Bool(Cur, FALSE)
        /\ State_is_dir(Cur, p) = Bool(Cur, FALSE)
        /\ State_is_file(Cur, p) = Bool(Cur, FALSE)
        /\ State_list_directory(Cur, p).err \in Taxonomy

====
